---- MODULE Spec2Model ----
(***************************************************************************)
(* The merge engine of gbwf-dev/cli (package ort): Merge and isFastForward *)
(* over a content-addressed commit/tree/blob store, an index and a working *)
(* tree.  The repository holds two revisions of the engine, src/ort/ort.go *)
(* and src/unnamed/part_003; the variable impl says which one a behaviour  *)
(* runs, and every step is translated from the revision it names.          *)
(*                                                                         *)
(* A blob hash is identified with the blob's text (the store is content    *)
(* addressed), a tree/index/working tree is a function from the paths that *)
(* exist to their text, and a commit hash is a natural number.             *)
(***************************************************************************)
EXTENDS Integers, Sequences, FiniteSets, TLC

VARIABLES
    impl,       \* which revision of Merge runs: "ort_go" or "part_003"
    commits,    \* object store: commit hash -> [parents, tree, author, committer]
    headRef,    \* hash the current branch (what HEAD names) points at
    mergeHead,  \* hash of the MERGE_HEAD reference, ZeroHash when it does not exist
    index,      \* staging area: path -> blob
    worktree,   \* working tree filesystem: path -> file content
    shallow,    \* r.Storer.Shallow(): sequence of shallow boundary commits
    pc,         \* position of the running Merge call
    strategy,   \* opts.Strategy of the running call
    target,     \* ref.Hash() of the running call
    ours,       \* head.Hash() as read by the running call
    ff,         \* result of isFastForward in the running call
    base,       \* baseCommits[0] of the running call
    todo,       \* keys of `changes` the range loop has not visited yet
    conflict,   \* mergeHasConflict
    result,     \* what the last Merge call returned
    merged,     \* paths for which diff3.Merge was invoked by the running call
    touched,    \* TRUE once the running call has read the repository
    pre,        \* the repository as it was when the running call started
    calls,      \* number of Merge calls started
    dryRun,     \* the --dry-run flag of the init command that drives the calls
    disk,       \* the target directory on the real filesystem
    handles,    \* blob readers and files the running call has opened and not closed
    raw,        \* package source: the string handed to Extract or Resolve
    driver,     \* package source: the *Driver Extract returned, {} for nil
    sourceErr,  \* package source: the error Extract or Resolve returned
    reader,     \* package source: the resource Resolve opened, << >> for none
    sourcePc,   \* package source: position of the running Resolve call
    plugins,    \* init command: selectedPlugins, the commits their references name
    pluginIndex, \* init command: position of the plugin loop in selectedPlugins
    runPc,      \* init command: position of RunE
    runErr,     \* init command: what RunE returned
    log,        \* init command: the remote, fetch, reference and merge operations performed
    items,      \* components: the items of the list, in order
    cursor,     \* components: list.Index(), from 0
    selected,   \* components: BaseSelector.selected, {} for nil
    selectedMap, \* components: BaseMultiSelector.selected, index -> item
    input,      \* components: YesNo.input.Value(), a sequence of characters
    ynResult,   \* components: YesNo.result
    done,       \* components: YesNo.done
    cmd,        \* components: the command the last Update returned
    msgs        \* components: the messages Update has received, oldest first

vars == << impl, commits, headRef, mergeHead, index, worktree, shallow, pc,
           strategy, target, ours, ff, base, todo, conflict, result, merged,
           touched, pre, calls, dryRun, disk, handles, raw, driver, sourceErr,
           reader, sourcePc, plugins, pluginIndex, runPc, runErr, log, items,
           cursor, selected, selectedMap, input, ynResult, done, cmd, msgs >>

----------------------------------------------------------------------------
(* Bounds of the model *)

MaxCalls == 2

\* The longest string handed to package source, in pieces.
MaxPieces == 4

\* The longest list of items shown by a selector.
MaxItems == 2

\* The number of messages a component is handed.
MaxMsgs == 3

\* The number of messages the yes/no prompt is handed.
MaxKeys == 5

----------------------------------------------------------------------------
(* Program constants *)

FastForwardMerge == 0
FastForwardOnly == 1
OrtMerge == 2

\* A selector value outside the three declared ones.
OtherStrategy == OrtMerge + 1

Strategies == {FastForwardMerge, FastForwardOnly, OrtMerge, OtherStrategy}

ZeroHash == 0

Implementations == {"ort_go", "part_003"}

\* head.Name().Short() and ref.Name().Short(): the labels given to diff3.Merge
OursLabel == "main"
TheirsLabel == "plugin/main"

----------------------------------------------------------------------------
(* Paths, texts and trees *)

Paths == {"f", "g"}

T0 == <<"a", "b", "c">>
T1 == <<"a", "B", "c">>
T2 == <<"a", "b", "C">>
T3 == <<"a", "X", "c">>

\* Text number k; 0 stands for "the path does not exist".
TextOf(k) == CASE k = 1 -> T0 [] k = 2 -> T1 [] k = 3 -> T2 [] k = 4 -> T3

\* One path's content in (base, ours, theirs), up to renaming of the texts:
\* every combination of absent / unchanged / inserted / modified / deleted
\* on the two sides, with equal and with different new contents.
PathCases ==
    { <<0, 0, 0>>, <<0, 2, 0>>, <<0, 0, 2>>, <<0, 2, 2>>, <<0, 2, 4>>,
      <<1, 1, 1>>, <<1, 2, 1>>, <<1, 1, 2>>, <<1, 2, 2>>, <<1, 2, 3>>,
      <<1, 2, 4>>, <<1, 0, 1>>, <<1, 1, 0>>, <<1, 0, 0>>, <<1, 0, 2>>,
      <<1, 2, 0>> }

\* An order on the cases.  The paths are interchangeable, so of two repositories
\* that differ only by swapping the paths one is enough.
CaseRank(c) == 25 * c[1] + 5 * c[2] + c[3]

\* The tree in which path p holds text number pick[p] (absent for 0).
MkTree(pick) == [p \in {q \in Paths : pick[q] # 0} |-> TextOf(pick[p])]

EmptyTree == [p \in {} |-> T0]

Write(t, p, c) == [q \in (DOMAIN t) \cup {p} |-> IF q = p THEN c ELSE t[q]]

Del(t, p) == [q \in (DOMAIN t) \ {p} |-> t[q]]

----------------------------------------------------------------------------
(* Ancestry Resolver *)

Parents(c) == { commits[c].parents[i] : i \in DOMAIN commits[c].parents }

\* The commits object.NewCommitPreorderIter(c, nil, ignore) yields: a commit in
\* `ignore` counts as already seen, so it is neither yielded nor walked through.
RECURSIVE Walk(_, _)
Walk(c, ignore) ==
    IF c \in ignore
    THEN {}
    ELSE {c} \cup UNION { Walk(p, ignore) : p \in Parents(c) }

\* A variant of ParentsToIgnore for a walk that knows no shallow boundary.
ParentsToIgnore_None(shallowList) == {}

ParentsToIgnore(shallowList) ==
    IF Len(shallowList) > 0 THEN Parents(shallowList[1]) ELSE {}

isFastForward_Either(old, newHash, shallowList) ==
    \/ old \in Walk(newHash, ParentsToIgnore(shallowList))
    \/ newHash \in Walk(old, ParentsToIgnore(shallowList))

isFastForward(old, newHash, shallowList) ==
    old \in Walk(newHash, ParentsToIgnore(shallowList))

Ancestors(c) == Walk(c, {})

\* Commit.MergeBase: the common ancestors that are not ancestors of another
\* common ancestor.
MergeBase(a, b) ==
    LET common == Ancestors(a) \cap Ancestors(b)
    IN  { x \in common : \A y \in common \ {x} : x \notin Ancestors(y) }

----------------------------------------------------------------------------
(* Change Classifier *)

\* An object.ChangeEntry; the zero entry (empty name) is a side that has no file.
NoEntry == [name |-> "", file |-> << >>]

Entry(t, p) == IF p \in DOMAIN t THEN [name |-> p, file |-> t[p]] ELSE NoEntry

\* pair.ours / pair.theirs == nil
NoChange == [from |-> NoEntry, to |-> NoEntry]

\* Tree.Diff: one change for every path whose entry differs between a and b.
Diff(a, b) ==
    { [from |-> Entry(a, p), to |-> Entry(b, p)] :
        p \in { q \in (DOMAIN a) \cup (DOMAIN b) : Entry(a, q) # Entry(b, q) } }

\* Change.Action
Action(change) ==
    IF change.from.name = "" THEN "Insert"
    ELSE IF change.to.name = "" THEN "Delete"
    ELSE "Modify"

\* A variant of ChangeKey that always takes the To name.
ChangeKey_ToName(change) == change.to.name

\* The key of a change in `changes`: its To name, or its From name for a deletion.
ChangeKey(change) ==
    IF change.to.name = "" THEN change.from.name ELSE change.to.name

SlotOf(changeList, path) ==
    IF \E c \in changeList : ChangeKey(c) = path
    THEN CHOOSE c \in changeList : ChangeKey(c) = path
    ELSE NoChange

\* The map `changes` built from the two diffs.
BuildMergePlan(baseTree, oursTree, theirsTree) ==
    LET baseToOurs == Diff(baseTree, oursTree)
        baseToTheirs == Diff(baseTree, theirsTree)
        keys == { ChangeKey(c) : c \in baseToOurs \cup baseToTheirs }
    IN  [ path \in keys |->
            [ ours |-> SlotOf(baseToOurs, path),
              theirs |-> SlotOf(baseToTheirs, path) ] ]

\* The plan of the running call.
Plan == BuildMergePlan(commits[base].tree, commits[ours].tree, commits[target].tree)

----------------------------------------------------------------------------
(* Three-Way Content Merger (package gbwf/ort/diff3) *)

OpenMarker(label) == "<<<<<<< " \o label
Separator == "======="
CloseMarker(label) == ">>>>>>> " \o label

\* Line i was not changed differently on the two sides.
LineAgrees(o, b, t, i) == o[i] = t[i] \/ o[i] = b[i] \/ t[i] = b[i]

LinePick(o, b, t, i) == IF o[i] = b[i] THEN t[i] ELSE o[i]

\* Last line of the run of conflicting lines that starts at line i.
RECURSIVE RunEnd(_, _, _, _)
RunEnd(o, b, t, i) ==
    IF i < Len(o) /\ ~LineAgrees(o, b, t, i + 1)
    THEN RunEnd(o, b, t, i + 1)
    ELSE i

ConflictRegion(oursLines, theirsLines, labelA, labelB) ==
    << OpenMarker(labelA) >> \o oursLines \o << Separator >> \o theirsLines
        \o << CloseMarker(labelB) >>

RECURSIVE MergeFrom(_, _, _, _, _, _)
MergeFrom(o, b, t, i, labelA, labelB) ==
    IF i > Len(o) THEN << >>
    ELSE IF LineAgrees(o, b, t, i)
    THEN << LinePick(o, b, t, i) >> \o MergeFrom(o, b, t, i + 1, labelA, labelB)
    ELSE LET j == RunEnd(o, b, t, i)
         IN  ConflictRegion(SubSeq(o, i, j), SubSeq(t, i, j), labelA, labelB)
                 \o MergeFrom(o, b, t, j + 1, labelA, labelB)

\* diff3.Merge(a, o, b, true, labelA, labelB): [Result, Conflicts].  Texts of the
\* same number of lines are merged line by line; otherwise each text is one unit.
MergeText(o, b, t, labelA, labelB) ==
    IF Len(o) = Len(b) /\ Len(t) = Len(b)
    THEN [ Result |-> MergeFrom(o, b, t, 1, labelA, labelB),
           Conflicts |-> \E i \in 1..Len(o) : ~LineAgrees(o, b, t, i) ]
    ELSE IF o = t \/ t = b THEN [Result |-> o, Conflicts |-> FALSE]
    ELSE IF o = b THEN [Result |-> t, Conflicts |-> FALSE]
    ELSE [ Result |-> ConflictRegion(o, t, labelA, labelB), Conflicts |-> TRUE ]

----------------------------------------------------------------------------
(* Working tree and index operations used by Merge *)

\* Outcome of resolving one path: the working tree and index after it, whether
\* diff3.Merge was invoked and reported conflicts, and the error that makes
\* Merge return at once ("none" when the loop goes on).
Outcome(wt, idx, merger, conflicts, err) ==
    [wt |-> wt, idx |-> idx, merger |-> merger, conflicts |-> conflicts, err |-> err]

\* w.Add(path): stage the file of the working tree; a file that is gone is
\* removed from the index, and that fails when the index has no entry for it.
Add(wt, idx, path) ==
    IF path \in DOMAIN wt
    THEN Outcome(wt, Write(idx, path, wt[path]), FALSE, FALSE, "none")
    ELSE IF path \in DOMAIN idx
    THEN Outcome(wt, Del(idx, path), FALSE, FALSE, "none")
    ELSE Outcome(wt, idx, FALSE, FALSE, "ErrEntryNotFound")

\* A variant of WriteAndStage that writes the file and leaves the index alone.
WriteAndStage_Unstaged(wt, idx, path, content) ==
    Outcome(Write(wt, path, content), idx, FALSE, FALSE, "none")

\* w.Filesystem.Create(path), io.Copy(dst, reader), w.Add(path)
WriteAndStage(wt, idx, path, content) ==
    Add(Write(wt, path, content), idx, path)

\* src/ort/ort.go: w.Filesystem.Remove then w.Remove, "not there" tolerated on both.
RemoveOrtGo(wt, idx, path) ==
    Outcome(Del(wt, path), Del(idx, path), FALSE, FALSE, "none")

\* part_003: w.Remove alone.  It drops the index entry and then the file; with no
\* index entry it returns ErrEntryNotFound (tolerated) before touching the file.
RemovePart003(wt, idx, path) ==
    IF path \in DOMAIN idx
    THEN Outcome(Del(wt, path), Del(idx, path), FALSE, FALSE, "none")
    ELSE Outcome(wt, idx, FALSE, FALSE, "none")

\* A variant of Remove that drops the index entry and keeps the file.
Remove_IndexOnly(im, wt, idx, path) ==
    Outcome(wt, Del(idx, path), FALSE, FALSE, "none")

Remove(im, wt, idx, path) ==
    IF im = "ort_go" THEN RemoveOrtGo(wt, idx, path) ELSE RemovePart003(wt, idx, path)

----------------------------------------------------------------------------
(* Per-path merge case resolution: the body of `for filepath, pair := range changes` *)

\* The branches of the loop body, named after their comments in the code.
ResolutionCases ==
    { "OnlyOurs", "OnlyTheirs", "ModifiedByBoth", "DeletedByBoth", "DeletedByThem",
      "DeletedByUs" }

\* A variant of CaseGuard whose both-changed branch matches two Modify only.
CaseGuard_ModifyOnly(case, pair) ==
    LET ourAction == Action(pair.ours)
        theirAction == Action(pair.theirs)
        both == pair.ours # NoChange /\ pair.theirs # NoChange
    IN  CASE case = "OnlyOurs" -> pair.ours # NoChange /\ pair.theirs = NoChange
          [] case = "OnlyTheirs" -> pair.ours = NoChange /\ pair.theirs # NoChange
          [] case = "ModifiedByBoth" ->
                both /\ ourAction = "Modify" /\ theirAction = "Modify"
          [] case = "DeletedByBoth" ->
                both /\ ourAction = "Delete" /\ theirAction = "Delete"
          [] case = "DeletedByThem" ->
                both /\ ourAction \in {"Insert", "Modify"} /\ theirAction = "Delete"
          [] case = "DeletedByUs" ->
                both /\ theirAction \in {"Insert", "Modify"} /\ ourAction = "Delete"

\* The condition under which the loop body enters each of its branches.
CaseGuard(case, pair) ==
    LET ourAction == Action(pair.ours)
        theirAction == Action(pair.theirs)
        both == pair.ours # NoChange /\ pair.theirs # NoChange
    IN  CASE case = "OnlyOurs" -> pair.ours # NoChange /\ pair.theirs = NoChange
          [] case = "OnlyTheirs" -> pair.ours = NoChange /\ pair.theirs # NoChange
          [] case = "ModifiedByBoth" ->
                both /\ ( \/ ourAction = "Modify" /\ theirAction = "Modify"
                          \/ ourAction = "Insert" /\ theirAction = "Insert" )
          [] case = "DeletedByBoth" ->
                both /\ ourAction = "Delete" /\ theirAction = "Delete"
          [] case = "DeletedByThem" ->
                both /\ ourAction \in {"Insert", "Modify"} /\ theirAction = "Delete"
          [] case = "DeletedByUs" ->
                both /\ theirAction \in {"Insert", "Modify"} /\ ourAction = "Delete"

\* A variant of ResolveSingle that leaves a path only one side changed untouched.
ResolveSingle_Skipped(im, wt, idx, path, change) ==
    Outcome(wt, idx, FALSE, FALSE, "none")

\* Only one side changed the path: apply that side's action.
ResolveSingle(im, wt, idx, path, change) ==
    IF Action(change) = "Delete"
    THEN Remove(im, wt, idx, path)
    ELSE WriteAndStage(wt, idx, path, change.to.file)

\* A variant of ResolveIdentical that hands the pair to the text merger, which
\* rewrites and stages the file.
ResolveIdentical_Merged(im, wt, idx, path) ==
    LET added == Add(wt, idx, path)
    IN  Outcome(added.wt, added.idx, TRUE, FALSE, added.err)

\* Both sides made the same change (ours.Hash == theirs.Hash).
ResolveIdentical(im, wt, idx, path) ==
    IF im = "ort_go"
    THEN Outcome(wt, idx, FALSE, FALSE, "none")
    ELSE Add(wt, idx, path)

\* A variant of ResolveThreeWay that stages the file whatever the merger reported.
ResolveThreeWay_AlwaysStaged(wt, idx, path, pair) ==
    IF pair.ours.from.name = ""
    THEN Outcome(wt, idx, FALSE, FALSE, "panic")
    ELSE LET mergeResult == MergeText(pair.ours.to.file, pair.ours.from.file,
                                      pair.theirs.to.file, OursLabel, TheirsLabel)
             written == Write(wt, path, mergeResult.Result)
         IN  LET added == Add(written, idx, path)
             IN  Outcome(added.wt, added.idx, TRUE, mergeResult.Conflicts, added.err)

\* A variant of ResolveThreeWay that writes the file and never stages it.
ResolveThreeWay_NeverStaged(wt, idx, path, pair) ==
    IF pair.ours.from.name = ""
    THEN Outcome(wt, idx, FALSE, FALSE, "panic")
    ELSE LET mergeResult == MergeText(pair.ours.to.file, pair.ours.from.file,
                                      pair.theirs.to.file, OursLabel, TheirsLabel)
             written == Write(wt, path, mergeResult.Result)
         IN  Outcome(written, idx, TRUE, mergeResult.Conflicts, "none")

\* A variant of ResolveThreeWay that hands base and ours to diff3.Merge in the
\* other order.
ResolveThreeWay_BaseFirst(wt, idx, path, pair) ==
    IF pair.ours.from.name = ""
    THEN Outcome(wt, idx, FALSE, FALSE, "panic")
    ELSE LET mergeResult == MergeText(pair.ours.from.file, pair.ours.to.file,
                                      pair.theirs.to.file, OursLabel, TheirsLabel)
             written == Write(wt, path, mergeResult.Result)
         IN  IF mergeResult.Conflicts
             THEN Outcome(written, idx, TRUE, TRUE, "none")
             ELSE LET added == Add(written, idx, path)
                  IN  Outcome(added.wt, added.idx, TRUE, FALSE, added.err)

\* A variant of ResolveThreeWay that hands the two labels to diff3.Merge in the
\* other order.
ResolveThreeWay_LabelsSwapped(wt, idx, path, pair) ==
    IF pair.ours.from.name = ""
    THEN Outcome(wt, idx, FALSE, FALSE, "panic")
    ELSE LET mergeResult == MergeText(pair.ours.to.file, pair.ours.from.file,
                                      pair.theirs.to.file, TheirsLabel, OursLabel)
             written == Write(wt, path, mergeResult.Result)
         IN  IF mergeResult.Conflicts
             THEN Outcome(written, idx, TRUE, TRUE, "none")
             ELSE LET added == Add(written, idx, path)
                  IN  Outcome(added.wt, added.idx, TRUE, FALSE, added.err)

\* Both sides inserted or both modified, with different content: diff3.Merge.
\* For two inserts the base file is nil and base.Reader() dereferences it.
ResolveThreeWay(wt, idx, path, pair) ==
    IF pair.ours.from.name = ""
    THEN Outcome(wt, idx, FALSE, FALSE, "panic")
    ELSE LET mergeResult == MergeText(pair.ours.to.file, pair.ours.from.file,
                                      pair.theirs.to.file, OursLabel, TheirsLabel)
             written == Write(wt, path, mergeResult.Result)
         IN  IF mergeResult.Conflicts
             THEN Outcome(written, idx, TRUE, TRUE, "none")
             ELSE LET added == Add(written, idx, path)
                  IN  Outcome(added.wt, added.idx, TRUE, FALSE, added.err)

\* Both sides changed the path.
ResolveBoth(im, wt, idx, path, pair) ==
    IF CaseGuard("ModifiedByBoth", pair)
    THEN IF pair.ours.to.file = pair.theirs.to.file
         THEN ResolveIdentical(im, wt, idx, path)
         ELSE ResolveThreeWay(wt, idx, path, pair)
    ELSE IF CaseGuard("DeletedByBoth", pair)
    THEN Remove(im, wt, idx, path)
    ELSE IF CaseGuard("DeletedByThem", pair)
    THEN WriteAndStage(wt, idx, path, pair.ours.to.file)
    ELSE IF CaseGuard("DeletedByUs", pair)
    THEN WriteAndStage(wt, idx, path, pair.theirs.to.file)
    ELSE Outcome(wt, idx, FALSE, FALSE, "none")

Resolve(im, wt, idx, path, pair) ==
    IF CaseGuard("OnlyOurs", pair)
    THEN ResolveSingle(im, wt, idx, path, pair.ours)
    ELSE IF CaseGuard("OnlyTheirs", pair)
    THEN ResolveSingle(im, wt, idx, path, pair.theirs)
    ELSE IF pair.ours # NoChange /\ pair.theirs # NoChange
    THEN ResolveBoth(im, wt, idx, path, pair)
    ELSE Outcome(wt, idx, FALSE, FALSE, "none")

\* The readers and files one iteration opens for its path, and whether a
\* deferred Close is registered for them.  src/ort/ort.go never closes what the
\* single-side and the delete/modify branches open; part_003 defers the Close
\* of the destination file of the single-side branches only.  The three-way
\* branch defers the Close of its three readers and of the file, once the nil
\* base file of two inserts has not stopped it.
Handle(path, kind, deferred) == [path |-> path, kind |-> kind, deferred |-> deferred]

Acquired(im, path, pair) ==
    IF CaseGuard("OnlyOurs", pair) /\ Action(pair.ours) # "Delete"
    THEN { Handle(path, "oursReader", FALSE), Handle(path, "dst", im = "part_003") }
    ELSE IF CaseGuard("OnlyTheirs", pair) /\ Action(pair.theirs) # "Delete"
    THEN { Handle(path, "theirsReader", FALSE), Handle(path, "dst", im = "part_003") }
    ELSE IF CaseGuard("ModifiedByBoth", pair)
            /\ pair.ours.to.file # pair.theirs.to.file
            /\ pair.ours.from.name # ""
    THEN { Handle(path, "baseReader", TRUE), Handle(path, "oursReader", TRUE),
           Handle(path, "theirsReader", TRUE), Handle(path, "file", TRUE) }
    ELSE IF CaseGuard("DeletedByThem", pair)
    THEN { Handle(path, "dst", FALSE), Handle(path, "oursReader", FALSE) }
    ELSE IF CaseGuard("DeletedByUs", pair)
    THEN { Handle(path, "dstFile", FALSE), Handle(path, "theirsReader", FALSE) }
    ELSE {}

\* The deferred calls run when Merge returns.
Release(held) == { h \in held : ~h.deferred }

\* A variant of IsClean for a Merge that never takes the clean exit.
IsClean_Never == FALSE

\* w.Status().IsClean(): nothing staged and nothing modified or untracked.
IsClean == index = commits[headRef].tree /\ worktree = index

----------------------------------------------------------------------------
(* The repository before any Merge call *)

Author(c) == <<"author", c>>
Committer(c) == <<"committer", c>>

MkCommit(c, parents, tree) ==
    [parents |-> parents, tree |-> tree, author |-> Author(c), committer |-> Committer(c)]

\* Commit 1 is a root, 2 and 3 are its children, 4 is an unrelated root.
InitialCommits(baseTree, oursTree, theirsTree) ==
    [ c \in 1..4 |->
        CASE c = 1 -> MkCommit(1, << >>, baseTree)
          [] c = 2 -> MkCommit(2, <<1>>, oursTree)
          [] c = 3 -> MkCommit(3, <<1>>, theirsTree)
          [] c = 4 -> MkCommit(4, << >>, theirsTree) ]

Snapshot ==
    [headRef |-> headRef, mergeHead |-> mergeHead, index |-> index,
     worktree |-> worktree, commits |-> commits]

\* The variables of package source, and their values while it is not used.
sourceVars == << raw, driver, sourceErr, reader, sourcePc >>

SourceIdle ==
    /\ raw = << >>
    /\ driver = {}
    /\ sourceErr = "none"
    /\ reader = << >>
    /\ sourcePc = "idle"

\* The variables of the init command's RunE, and their values while it is not
\* running.
commandVars == << plugins, pluginIndex, runPc, runErr, log >>

CommandIdle ==
    /\ plugins = << >>
    /\ pluginIndex = 0
    /\ runPc = "idle"
    /\ runErr = "none"
    /\ log = << >>

\* The variables of package components, and their values while no component
\* is shown.
componentVars == << items, cursor, selected, selectedMap, input, ynResult, done, cmd, msgs >>

NoEntries == [ i \in {} |-> "" ]

ComponentsIdle ==
    /\ items = << >>
    /\ cursor = 0
    /\ selected = {}
    /\ selectedMap = NoEntries
    /\ input = << >>
    /\ ynResult = FALSE
    /\ done = FALSE
    /\ cmd = "none"
    /\ msgs = << >>

\* The target directory before the command has written anything to it.
EmptyDirectory ==
    [headRef |-> ZeroHash, mergeHead |-> ZeroHash, index |-> EmptyTree,
     worktree |-> EmptyTree, commits |-> << >>]

OnDisk_Always(flag) == TRUE

\* `if !dryRun`: the storer and the worktree are moved from memory.NewStorage()
\* and memfs.New() to the target directory.
OnDisk(flag) == ~flag

\* What the target directory holds once the repository has changed.
Persist == disk' = IF OnDisk(dryRun) THEN Snapshot' ELSE disk

Init ==
    /\ impl \in Implementations
    /\ \E cf \in PathCases : \E cg \in { c \in PathCases : CaseRank(cf) <= CaseRank(c) } :
          commits = InitialCommits(
              MkTree([p \in Paths |-> IF p = "f" THEN cf[1] ELSE cg[1]]),
              MkTree([p \in Paths |-> IF p = "f" THEN cf[2] ELSE cg[2]]),
              MkTree([p \in Paths |-> IF p = "f" THEN cf[3] ELSE cg[3]]))
    /\ headRef \in {1, 2}
    /\ mergeHead = ZeroHash
    /\ index = commits[headRef].tree
    /\ worktree = commits[headRef].tree
    /\ shallow \in {<< >>, <<2>>}
    /\ pc = "idle"
    /\ strategy = FastForwardMerge
    /\ target = ZeroHash
    /\ ours = ZeroHash
    /\ ff = FALSE
    /\ base = ZeroHash
    /\ todo = {}
    /\ conflict = FALSE
    /\ result = "none"
    /\ merged = {}
    /\ touched = FALSE
    /\ pre = Snapshot
    /\ calls = 0
    /\ dryRun = FALSE
    /\ disk = IF OnDisk(dryRun) THEN Snapshot ELSE EmptyDirectory
    /\ handles = {}
    /\ SourceIdle
    /\ CommandIdle
    /\ ComponentsIdle

----------------------------------------------------------------------------
(* Merge, step by step *)

repoVars == << commits, headRef, mergeHead, index, worktree >>
callVars == << strategy, target, pre, calls >>

\* Merge returns r; the locals of the call stay as they were at the return.
Return(r) ==
    /\ pc' = "done"
    /\ result' = r
    /\ UNCHANGED << ours, ff, base, todo >>

\* A caller invokes Merge(r, ref, opts).
Call(t, s) ==
    /\ pc \in {"idle", "done"}
    /\ calls < MaxCalls
    /\ pc' = "start"
    /\ target' = t
    /\ strategy' = s
    /\ calls' = calls + 1
    /\ pre' = Snapshot
    /\ result' = "none"
    /\ conflict' = FALSE
    /\ merged' = {}
    /\ touched' = FALSE
    /\ ours' = ZeroHash
    /\ ff' = FALSE
    /\ base' = ZeroHash
    /\ todo' = {}
    /\ UNCHANGED << impl, dryRun, shallow, repoVars >>
    /\ Persist
    /\ UNCHANGED << sourceVars, commandVars, componentVars >>
    /\ handles' = {}

\* part_003: "Check strategy before moving HEAD".
CheckStrategy ==
    /\ pc = "start"
    /\ impl = "part_003"
    /\ IF strategy # OrtMerge /\ strategy # FastForwardMerge /\ strategy # FastForwardOnly
       THEN Return("ErrUnsupportedMergeStrategy")
       ELSE /\ pc' = "open"
            /\ UNCHANGED << result, ours, ff, base, todo >>
    /\ UNCHANGED << impl, dryRun, shallow, repoVars, callVars, conflict, merged, touched >>
    /\ Persist
    /\ UNCHANGED << sourceVars, commandVars, componentVars >>
    /\ UNCHANGED handles

\* The revision reaches the reading of the repository from this position.
ReadsFrom(im) == IF im = "ort_go" THEN "start" ELSE "open"

\* r.Head(), r.CommitObject for both sides, r.Storer.Shallow(), isFastForward.
\* r.CommitObject(ref.Hash()) fails when the reference names no stored commit.
OpenRepository ==
    /\ pc = ReadsFrom(impl)
    /\ touched' = TRUE
    /\ IF target \notin DOMAIN commits
       THEN Return("ErrObjectNotFound")
       ELSE /\ pc' = "dispatch"
            /\ ours' = headRef
            /\ ff' = isFastForward(headRef, target, shallow)
            /\ UNCHANGED << result, base, todo >>
    /\ UNCHANGED << impl, dryRun, shallow, repoVars, callVars, conflict, merged >>
    /\ Persist
    /\ UNCHANGED << sourceVars, commandVars, componentVars >>
    /\ UNCHANGED handles

\* A variant of TakesFastForward that repoints the head whatever the check said.
TakesFastForward_Unchecked(im, s, isFF) == TRUE

\* The revision and strategy under which a fast-forward result is acted upon.
TakesFastForward(im, s, isFF) ==
    IF im = "ort_go"
    THEN isFF /\ s \in {FastForwardOnly, FastForwardMerge}
    ELSE isFF

\* fmt.Fprintf(opts.Progress, ...) with the sink present (sink) or nil.
\* src/ort/ort.go writes unconditionally, and fmt calls Write on the nil
\* io.Writer, which panics; part_003 writes under `if opts.Progress != nil`.
WriteProgress(im, sink) ==
    IF im = "ort_go" /\ ~sink THEN "panic" ELSE "none"

FastForward_ChecksOut(sink) ==
    /\ pc = "dispatch"
    /\ TakesFastForward(impl, strategy, ff)
    /\ IF WriteProgress(impl, sink) = "panic"
       THEN /\ Return("panic")
            /\ UNCHANGED << headRef, index, worktree >>
       ELSE /\ headRef' = target
            /\ index' = commits[target].tree
            /\ worktree' = commits[target].tree
            /\ Return("ok")
    /\ UNCHANGED << impl, dryRun, shallow, commits, mergeHead, callVars,
                    conflict, merged, touched >>
    /\ Persist
    /\ UNCHANGED << sourceVars, commandVars, componentVars >>
    /\ UNCHANGED handles

\* The progress text, then
\* r.Storer.SetReference(plumbing.NewHashReference(head.Name(), ref.Hash()))
FastForward(sink) ==
    /\ pc = "dispatch"
    /\ TakesFastForward(impl, strategy, ff)
    /\ IF WriteProgress(impl, sink) = "panic"
       THEN /\ Return("panic")
            /\ UNCHANGED headRef
       ELSE /\ headRef' = target
            /\ Return("ok")
    /\ UNCHANGED << impl, dryRun, shallow, commits, mergeHead, index, worktree, callVars,
                    conflict, merged, touched >>
    /\ Persist
    /\ UNCHANGED << sourceVars, commandVars, componentVars >>
    /\ UNCHANGED handles

FastForwardNotPossible ==
    /\ pc = "dispatch"
    /\ strategy = FastForwardOnly
    /\ ~ff
    /\ Return("ErrFastForwardMergeNotPossible")
    /\ UNCHANGED << impl, dryRun, shallow, repoVars, callVars, conflict, merged, touched >>
    /\ Persist
    /\ UNCHANGED << sourceVars, commandVars, componentVars >>
    /\ UNCHANGED handles

\* src/ort/ort.go: the default case of `switch opts.Strategy`.
UnsupportedStrategy ==
    /\ pc = "dispatch"
    /\ impl = "ort_go"
    /\ strategy \notin {FastForwardOnly, FastForwardMerge, OrtMerge}
    /\ Return("ErrUnsupportedMergeStrategy")
    /\ UNCHANGED << impl, dryRun, shallow, repoVars, callVars, conflict, merged, touched >>
    /\ Persist
    /\ UNCHANGED << sourceVars, commandVars, componentVars >>
    /\ UNCHANGED handles

\* The call goes on to the three-way merge.
EntersThreeWay(im, s, isFF) ==
    IF im = "ort_go"
    THEN s = OrtMerge \/ (s = FastForwardMerge /\ ~isFF)
    ELSE ~isFF /\ s \in {FastForwardMerge, OrtMerge}

\* A variant of UnrelatedError that reports unrelated histories as a success.
UnrelatedError_Silent(im) == "ok"

\* The error for len(baseCommits) < 1.
UnrelatedError(im) ==
    IF im = "ort_go" THEN "unable to merge with different history"
    ELSE "ErrUnrelatedHistories"

UnrelatedHistories ==
    /\ pc = "dispatch"
    /\ EntersThreeWay(impl, strategy, ff)
    /\ MergeBase(ours, target) = {}
    /\ Return(UnrelatedError(impl))
    /\ UNCHANGED << impl, dryRun, shallow, repoVars, callVars, conflict, merged, touched >>
    /\ Persist
    /\ UNCHANGED << sourceVars, commandVars, componentVars >>
    /\ UNCHANGED handles

\* MergeBase, the three trees, the two diffs and the map `changes`.
FindBase ==
    /\ pc = "dispatch"
    /\ EntersThreeWay(impl, strategy, ff)
    /\ \E b \in MergeBase(ours, target) :
          /\ base' = b
          /\ todo' = DOMAIN BuildMergePlan(commits[b].tree, commits[ours].tree,
                                           commits[target].tree)
    /\ pc' = "resolve"
    /\ UNCHANGED << impl, dryRun, shallow, repoVars, callVars, ours, ff, conflict, result,
                    merged, touched >>
    /\ Persist
    /\ UNCHANGED << sourceVars, commandVars, componentVars >>
    /\ UNCHANGED handles

\* A variant of MergeHasConflict that keeps only the flag of the last path.
MergeHasConflict_Last(flag, conflicts) == conflicts

\* mergeHasConflict = mergeHasConflict || mergeResult.Conflicts
MergeHasConflict(flag, conflicts) == flag \/ conflicts

\* A variant of ResolvePath that restores the working tree and the index of the
\* start of the call when the iteration fails.
ResolvePath_RollsBack(path) ==
    /\ pc = "resolve"
    /\ path \in todo
    /\ LET out == Resolve(impl, worktree, index, path, Plan[path])
       IN  /\ worktree' = IF out.err # "none" THEN pre.worktree ELSE out.wt
           /\ index' = IF out.err # "none" THEN pre.index ELSE out.idx
           /\ conflict' = MergeHasConflict(conflict, out.conflicts)
           /\ merged' = IF out.merger THEN merged \cup {path} ELSE merged
           /\ IF out.err # "none"
              THEN Return(out.err)
              ELSE /\ todo' = todo \ {path}
                   /\ UNCHANGED << pc, result, ours, ff, base >>
    /\ UNCHANGED << impl, dryRun, shallow, commits, headRef, mergeHead, callVars, touched >>
    /\ Persist
    /\ UNCHANGED << sourceVars, commandVars, componentVars >>
    /\ handles' = LET held == handles \cup Acquired(impl, path, Plan[path])
                   IN  IF pc' = "done" THEN Release(held) ELSE held

\* One iteration of the range loop over `changes`, in any order.
ResolvePath(path) ==
    /\ pc = "resolve"
    /\ path \in todo
    /\ LET out == Resolve(impl, worktree, index, path, Plan[path])
       IN  /\ worktree' = out.wt
           /\ index' = out.idx
           /\ conflict' = MergeHasConflict(conflict, out.conflicts)
           /\ merged' = IF out.merger THEN merged \cup {path} ELSE merged
           /\ IF out.err # "none"
              THEN Return(out.err)
              ELSE /\ todo' = todo \ {path}
                   /\ UNCHANGED << pc, result, ours, ff, base >>
    /\ UNCHANGED << impl, dryRun, shallow, commits, headRef, mergeHead, callVars, touched >>
    /\ Persist
    /\ UNCHANGED << sourceVars, commandVars, componentVars >>
    /\ handles' = LET held == handles \cup Acquired(impl, path, Plan[path])
                   IN  IF pc' = "done" THEN Release(held) ELSE held

\* What is done to MERGE_HEAD when mergeHasConflict is set.
ConflictReference(im, current, theirs) ==
    IF im = "ort_go" THEN current ELSE theirs

ConflictExit ==
    /\ pc = "resolve"
    /\ todo = {}
    /\ conflict
    /\ mergeHead' = ConflictReference(impl, mergeHead, target)
    /\ Return("ErrMergeConflict")
    /\ UNCHANGED << impl, dryRun, shallow, commits, headRef, index, worktree, callVars,
                    conflict, merged, touched >>
    /\ Persist
    /\ UNCHANGED << sourceVars, commandVars, componentVars >>
    /\ handles' = Release(handles)

\* status.IsClean(): return nil
CleanExit ==
    /\ pc = "resolve"
    /\ todo = {}
    /\ ~conflict
    /\ IsClean
    /\ Return("ok")
    /\ UNCHANGED << impl, dryRun, shallow, repoVars, callVars, conflict, merged, touched >>
    /\ Persist
    /\ UNCHANGED << sourceVars, commandVars, componentVars >>
    /\ handles' = Release(handles)

NextHash == Cardinality(DOMAIN commits) + 1

\* A variant of MergeCommit with the parents in the other order.
MergeCommit_Swapped(oursHash, theirsHash) ==
    [ parents |-> << theirsHash, oursHash >>,
      tree |-> index,
      author |-> commits[oursHash].author,
      committer |-> commits[oursHash].committer ]

\* The commit w.Commit builds: the tree of the index, the given parents and the
\* author and committer of the options.
MergeCommit(oursHash, theirsHash) ==
    [ parents |-> << oursHash, theirsHash >>,
      tree |-> index,
      author |-> commits[oursHash].author,
      committer |-> commits[oursHash].committer ]

\* The error Merge returns when w.Commit refuses an empty commit: part_003
\* returns it; src/ort/ort.go overwrites it with that of r.CommitObject(ZeroHash).
EmptyCommitError(im) ==
    IF im = "ort_go" THEN "ErrObjectNotFound" ELSE "ErrEmptyCommit"

\* What Merge returns once w.Commit has stored the commit: r.CommitObject(newHash)
\* and oursCommit.Patch(newCommit) read the object store and their error is
\* returned (readFails); then the summary goes to the progress sink.
AfterCommit(im, sink, readFails) ==
    IF readFails THEN "ErrObjectRead"
    ELSE IF WriteProgress(im, sink) = "panic" THEN "panic"
    ELSE "ok"

\* w.Commit: refuses a tree equal to that of the first parent, otherwise stores
\* the commit and moves the branch of HEAD to it.
Commit(sink, readFails) ==
    /\ pc = "resolve"
    /\ todo = {}
    /\ ~conflict
    /\ ~IsClean
    /\ IF index = commits[ours].tree
       THEN /\ Return(EmptyCommitError(impl))
            /\ UNCHANGED << commits, headRef >>
       ELSE /\ commits' = [ c \in (DOMAIN commits) \cup {NextHash} |->
                              IF c = NextHash THEN MergeCommit(ours, target)
                              ELSE commits[c] ]
            /\ headRef' = NextHash
            /\ Return(AfterCommit(impl, sink, readFails))
    /\ UNCHANGED << impl, dryRun, shallow, mergeHead, index, worktree, callVars, conflict,
                    merged, touched >>
    /\ Persist
    /\ UNCHANGED << sourceVars, commandVars, componentVars >>
    /\ handles' = Release(handles)

Next ==
    \/ \E t \in (DOMAIN commits) \cup {ZeroHash}, s \in Strategies : Call(t, s)
    \/ CheckStrategy
    \/ OpenRepository
    \/ \E sink \in BOOLEAN : FastForward(sink)
    \/ FastForwardNotPossible
    \/ UnsupportedStrategy
    \/ UnrelatedHistories
    \/ FindBase
    \/ \E path \in Paths : ResolvePath(path)
    \/ ConflictExit
    \/ CleanExit
    \/ \E sink \in BOOLEAN, readFails \in BOOLEAN : Commit(sink, readFails)

Spec == Init /\ [][Next]_vars

\* The versions of the three-line file a/b/c: every line is the base line or
\* one of two rewritings of it.
Variants ==
    { << l1, l2, l3 >> : l1 \in {"a", "A", "Y"}, l2 \in {"b", "B", "X"},
                         l3 \in {"c", "C", "Z"} }

OneFile(text) == [p \in {"f"} |-> text]

\* The repositories in which base holds a/b/c in f, and ours and theirs any two
\* versions of it; the head is at ours.
TextInit ==
    /\ impl \in Implementations
    /\ \E o \in Variants, t \in Variants :
          commits = InitialCommits(OneFile(T0), OneFile(o), OneFile(t))
    /\ headRef = 2
    /\ mergeHead = ZeroHash
    /\ index = commits[headRef].tree
    /\ worktree = commits[headRef].tree
    /\ shallow = << >>
    /\ pc = "idle"
    /\ strategy = FastForwardMerge
    /\ target = ZeroHash
    /\ ours = ZeroHash
    /\ ff = FALSE
    /\ base = ZeroHash
    /\ todo = {}
    /\ conflict = FALSE
    /\ result = "none"
    /\ merged = {}
    /\ touched = FALSE
    /\ pre = Snapshot
    /\ calls = 0
    /\ dryRun = FALSE
    /\ disk = IF OnDisk(dryRun) THEN Snapshot ELSE EmptyDirectory
    /\ handles = {}
    /\ SourceIdle
    /\ CommandIdle
    /\ ComponentsIdle

TextSpec == TextInit /\ [][Next]_vars

\* The init command with and without --dry-run: the repository it has set up
\* (base checked out, plugin references fetched) before the plugin merges.
DryRunInit ==
    /\ impl \in Implementations
    /\ \E cf \in PathCases :
          commits = InitialCommits(
              MkTree([p \in Paths |-> IF p = "f" THEN cf[1] ELSE 1]),
              MkTree([p \in Paths |-> IF p = "f" THEN cf[2] ELSE 1]),
              MkTree([p \in Paths |-> IF p = "f" THEN cf[3] ELSE 1]))
    /\ headRef \in {1, 2}
    /\ mergeHead = ZeroHash
    /\ index = commits[headRef].tree
    /\ worktree = commits[headRef].tree
    /\ shallow = << >>
    /\ pc = "idle"
    /\ strategy = FastForwardMerge
    /\ target = ZeroHash
    /\ ours = ZeroHash
    /\ ff = FALSE
    /\ base = ZeroHash
    /\ todo = {}
    /\ conflict = FALSE
    /\ result = "none"
    /\ merged = {}
    /\ touched = FALSE
    /\ pre = Snapshot
    /\ calls = 0
    /\ dryRun \in BOOLEAN
    /\ disk = IF OnDisk(dryRun) THEN Snapshot ELSE EmptyDirectory
    /\ handles = {}
    /\ SourceIdle
    /\ CommandIdle
    /\ ComponentsIdle

DryRunSpec == DryRunInit /\ [][Next]_vars

\* The working trees and indexes a repository whose head tree is t can be
\* handed to Merge with, as far as path p goes: as checked out, p removed, or a
\* file written at p that the index does not know.
WorktreesOf(t, p) == { t, Del(t, p), Write(t, p, T3) }
IndexesOf(t, p) == { t, Del(t, p) }

\* Merge called on a repository whose working tree and index are not those of a
\* fresh checkout.
DirtyInit ==
    /\ impl \in Implementations
    /\ \E cf \in PathCases :
          commits = InitialCommits(
              MkTree([p \in Paths |-> IF p = "f" THEN cf[1] ELSE 1]),
              MkTree([p \in Paths |-> IF p = "f" THEN cf[2] ELSE 1]),
              MkTree([p \in Paths |-> IF p = "f" THEN cf[3] ELSE 1]))
    /\ headRef = 2
    /\ mergeHead = ZeroHash
    /\ index \in IndexesOf(commits[headRef].tree, "f")
    /\ worktree \in WorktreesOf(commits[headRef].tree, "f")
    /\ shallow = << >>
    /\ pc = "idle"
    /\ strategy = FastForwardMerge
    /\ target = ZeroHash
    /\ ours = ZeroHash
    /\ ff = FALSE
    /\ base = ZeroHash
    /\ todo = {}
    /\ conflict = FALSE
    /\ result = "none"
    /\ merged = {}
    /\ touched = FALSE
    /\ pre = Snapshot
    /\ calls = 0
    /\ dryRun = FALSE
    /\ disk = IF OnDisk(dryRun) THEN Snapshot ELSE EmptyDirectory
    /\ handles = {}
    /\ SourceIdle
    /\ CommandIdle
    /\ ComponentsIdle

DirtySpec == DirtyInit /\ [][Next]_vars

(***************************************************************************)
(* Package source: Extract and Resolve *)
(***************************************************************************)

\* A string is the sequence of its characters.
HTTP == << "h", "t", "t", "p" >>
HTTPS == << "h", "t", "t", "p", "s" >>
File == << "f", "i", "l", "e" >>
SchemeSeparator == << ":", "/", "/" >>

\* strings.Index from position i on: the position of the first instance of
\* sep in s at or after i, 0 when there is none.
RECURSIVE IndexFrom(_, _, _)
IndexFrom(s, sep, i) ==
    IF i + Len(sep) - 1 > Len(s) THEN 0
    ELSE IF SubSeq(s, i, i + Len(sep) - 1) = sep THEN i
    ELSE IndexFrom(s, sep, i + 1)

Cut_Last(s, sep) ==
    LET found == { i \in 1..(Len(s) - Len(sep) + 1) : SubSeq(s, i, i + Len(sep) - 1) = sep }
        last == CHOOSE i \in found : \A j \in found : j <= i
    IN  IF found = {}
        THEN [before |-> s, after |-> << >>, found |-> FALSE]
        ELSE [before |-> SubSeq(s, 1, last - 1),
              after  |-> SubSeq(s, last + Len(sep), Len(s)),
              found  |-> TRUE]

\* strings.Cut: s sliced around the first instance of sep.
Cut(s, sep) ==
    LET i == IndexFrom(s, sep, 1)
    IN  IF i = 0
        THEN [before |-> s, after |-> << >>, found |-> FALSE]
        ELSE [before |-> SubSeq(s, 1, i - 1),
              after  |-> SubSeq(s, i + Len(sep), Len(s)),
              found  |-> TRUE]

\* Extract: the driver ({} for nil) and the error it returns.
Extract(str) ==
    LET cut == Cut(str, SchemeSeparator)
    IN  IF ~cut.found
        THEN [driver |-> {}, err |-> "invalid source format"]
        ELSE IF cut.before \in { HTTP, HTTPS, File }
        THEN [driver |-> { [Raw |-> str, Source |-> cut.before, Path |-> cut.after] },
              err    |-> "none"]
        ELSE [driver |-> {}, err |-> "invalid source driver"]

\* The strings handed to the package: up to MaxPieces pieces, one after another.
Pieces ==
    { HTTP, HTTPS, File, SchemeSeparator, << "f", "t", "p" >>, << ":" >>, << "/" >>, << "x" >> }

RECURSIVE Inputs(_)
Inputs(n) ==
    IF n = 0 THEN { << >> }
    ELSE LET shorter == Inputs(n - 1)
         IN  shorter \cup { s \o piece : s \in shorter, piece \in Pieces }

\* Resolve(source) has been called and is about to call Extract.
SourceInit ==
    /\ raw \in Inputs(MaxPieces)
    /\ driver = {}
    /\ sourceErr = "none"
    /\ reader = << >>
    /\ sourcePc = "call"
    /\ impl = "ort_go"
    /\ commits = InitialCommits(EmptyTree, EmptyTree, EmptyTree)
    /\ headRef = 2
    /\ mergeHead = ZeroHash
    /\ index = commits[headRef].tree
    /\ worktree = commits[headRef].tree
    /\ shallow = << >>
    /\ pc = "idle"
    /\ strategy = FastForwardMerge
    /\ target = ZeroHash
    /\ ours = ZeroHash
    /\ ff = FALSE
    /\ base = ZeroHash
    /\ todo = {}
    /\ conflict = FALSE
    /\ result = "none"
    /\ merged = {}
    /\ touched = FALSE
    /\ pre = Snapshot
    /\ calls = 0
    /\ dryRun = FALSE
    /\ disk = IF OnDisk(dryRun) THEN Snapshot ELSE EmptyDirectory
    /\ handles = {}
    /\ CommandIdle
    /\ ComponentsIdle

mergeVars ==
    << impl, commits, headRef, mergeHead, index, worktree, shallow, pc, strategy,
       target, ours, ff, base, todo, conflict, result, merged, touched, pre,
       calls, dryRun, disk, handles >>

\* driver, err = Extract(source)
Extracting ==
    /\ sourcePc = "call"
    /\ driver' = Extract(raw).driver
    /\ sourceErr' = Extract(raw).err
    /\ sourcePc' = "extracted"
    /\ UNCHANGED << raw, reader >>
    /\ UNCHANGED << mergeVars, commandVars, componentVars >>

\* if err != nil { return }
ResolveReturnsError ==
    /\ sourcePc = "extracted"
    /\ sourceErr # "none"
    /\ sourcePc' = "done"
    /\ UNCHANGED << raw, driver, sourceErr, reader >>
    /\ UNCHANGED << mergeVars, commandVars, componentVars >>

\* switch driver.Source: http.Get(driver.Raw) or os.Open(driver.Path),
\* either of which may fail.
ResolveOpens(fails) ==
    /\ sourcePc = "extracted"
    /\ sourceErr = "none"
    /\ \E d \in driver :
          IF d.Source \in { HTTP, HTTPS }
          THEN /\ reader' = IF fails THEN << >> ELSE << "http.Get", d.Raw >>
               /\ sourceErr' = IF fails THEN "ErrGet" ELSE "none"
          ELSE /\ reader' = IF fails THEN << >> ELSE << "os.Open", d.Path >>
               /\ sourceErr' = IF fails THEN "ErrOpen" ELSE "none"
    /\ sourcePc' = "done"
    /\ UNCHANGED << raw, driver >>
    /\ UNCHANGED << mergeVars, commandVars, componentVars >>

SourceNext ==
    \/ Extracting
    \/ ResolveReturnsError
    \/ \E fails \in BOOLEAN : ResolveOpens(fails)

SourceSpec == SourceInit /\ [][SourceNext]_vars

(***************************************************************************)
(* The init command: the plugin loop of RunE *)
(***************************************************************************)

\* The sequences of at most n elements of S.
RECURSIVE SeqsUpTo(_, _)
SeqsUpTo(S, n) ==
    IF n = 0 THEN { << >> }
    ELSE LET shorter == SeqsUpTo(S, n - 1)
         IN  shorter \cup { Append(q, x) : q \in shorter, x \in S }

\* RunE after the base has been checked out and the plugins selected:
\* selectedPlugins holds the commits the plugins' references name.
RunEInit ==
    /\ impl \in Implementations
    /\ \E cf \in PathCases :
          commits = InitialCommits(
              MkTree([p \in Paths |-> IF p = "f" THEN cf[1] ELSE 1]),
              MkTree([p \in Paths |-> IF p = "f" THEN cf[2] ELSE 1]),
              MkTree([p \in Paths |-> IF p = "f" THEN cf[3] ELSE 1]))
    /\ headRef \in {1, 2}
    /\ mergeHead = ZeroHash
    /\ index = commits[headRef].tree
    /\ worktree = commits[headRef].tree
    /\ shallow = << >>
    /\ pc = "idle"
    /\ strategy = FastForwardMerge
    /\ target = ZeroHash
    /\ ours = ZeroHash
    /\ ff = FALSE
    /\ base = ZeroHash
    /\ todo = {}
    /\ conflict = FALSE
    /\ result = "none"
    /\ merged = {}
    /\ touched = FALSE
    /\ pre = Snapshot
    /\ calls = 0
    /\ dryRun = FALSE
    /\ disk = IF OnDisk(dryRun) THEN Snapshot ELSE EmptyDirectory
    /\ handles = {}
    /\ SourceIdle
    /\ ComponentsIdle
    /\ plugins \in SeqsUpTo(DOMAIN commits, MaxCalls)
    /\ pluginIndex = 1
    /\ runPc = "range"
    /\ runErr = "none"
    /\ log = << >>

\* One operation of the loop on the plugin at pluginIndex, and how it ended.
Event(op, outcome) ==
    [op |-> op, plugin |-> pluginIndex, from |-> pre.headRef, to |-> headRef,
     outcome |-> outcome]

\* RunE returns err.
RunEReturns(err) ==
    /\ runPc' = "returned"
    /\ runErr' = err

\* for index, plugin := range selectedPlugins; after the loop, return err
\* (the err of program.Run, which is nil).
Range ==
    /\ runPc = "range"
    /\ IF pluginIndex > Len(plugins)
       THEN RunEReturns("none")
       ELSE runPc' = "remote" /\ UNCHANGED runErr
    /\ UNCHANGED << plugins, pluginIndex, log >>
    /\ UNCHANGED << mergeVars, sourceVars, componentVars >>

\* remote, err := repo.CreateRemote(...); if err != nil { return err }
CreateRemote(fails) ==
    /\ runPc = "remote"
    /\ log' = Append(log, Event("remote", IF fails THEN "ErrRemoteExists" ELSE "ok"))
    /\ IF fails
       THEN RunEReturns("ErrRemoteExists")
       ELSE runPc' = "fetch" /\ UNCHANGED runErr
    /\ UNCHANGED << plugins, pluginIndex >>
    /\ UNCHANGED << mergeVars, sourceVars, componentVars >>

\* err = remote.Fetch(...); if err != nil && !errors.Is(err, git.NoErrAlreadyUpToDate) { return err }
Fetch(outcome) ==
    /\ runPc = "fetch"
    /\ log' = Append(log, Event("fetch", outcome))
    /\ IF outcome \notin { "ok", "NoErrAlreadyUpToDate" }
       THEN RunEReturns(outcome)
       ELSE runPc' = "reference" /\ UNCHANGED runErr
    /\ UNCHANGED << plugins, pluginIndex >>
    /\ UNCHANGED << mergeVars, sourceVars, componentVars >>

\* pluginRef, err = repo.Reference(...); if err != nil { return err }
Reference(fails) ==
    /\ runPc = "reference"
    /\ log' = Append(log, Event("reference", IF fails THEN "ErrReferenceNotFound" ELSE "ok"))
    /\ IF fails
       THEN RunEReturns("ErrReferenceNotFound")
       ELSE runPc' = "merge" /\ UNCHANGED runErr
    /\ UNCHANGED << plugins, pluginIndex >>
    /\ UNCHANGED << mergeVars, sourceVars, componentVars >>

\* err = ort.Merge(repo, *pluginRef, ort.MergeOptions{Progress: progress}):
\* the strategy is the zero value, FastForwardMerge.
MergeCall ==
    /\ runPc = "merge"
    /\ calls = pluginIndex - 1
    /\ Call(plugins[pluginIndex], FastForwardMerge)

\* ort.Merge has returned: if err != nil { return err }, else the next plugin.
\* A panic inside Merge unwinds RunE without a return value.
MergeReturns ==
    /\ runPc = "merge"
    /\ pc = "done"
    /\ calls = pluginIndex
    /\ log' = Append(log, Event("merge", result))
    /\ CASE result = "ok" ->
              /\ pluginIndex' = pluginIndex + 1
              /\ runPc' = "range"
              /\ UNCHANGED runErr
         [] result = "panic" ->
              /\ runPc' = "panicked"
              /\ UNCHANGED << pluginIndex, runErr >>
         [] OTHER ->
              /\ RunEReturns(result)
              /\ UNCHANGED pluginIndex
    /\ UNCHANGED plugins
    /\ UNCHANGED << mergeVars, sourceVars, componentVars >>

\* progress is io.Discard or stdout, never nil.
RunENext ==
    \/ Range
    \/ \E fails \in BOOLEAN : CreateRemote(fails)
    \/ \E outcome \in { "ok", "NoErrAlreadyUpToDate", "ErrFetch" } : Fetch(outcome)
    \/ \E fails \in BOOLEAN : Reference(fails)
    \/ MergeCall
    \/ MergeReturns
    \/ CheckStrategy
    \/ OpenRepository
    \/ FastForward(TRUE)
    \/ UnrelatedHistories
    \/ FindBase
    \/ \E path \in Paths : ResolvePath(path)
    \/ ConflictExit
    \/ CleanExit
    \/ \E readFails \in BOOLEAN : Commit(TRUE, readFails)

RunESpec == RunEInit /\ [][RunENext]_vars

(***************************************************************************)
(* Package components: BaseSelector, and RunE around it *)
(***************************************************************************)

\* The repository right after git.Init, before anything is fetched; no Merge
\* call runs while a component is shown.
FreshRepository ==
    /\ impl = "ort_go"
    /\ commits = InitialCommits(EmptyTree, EmptyTree, EmptyTree)
    /\ headRef = 2
    /\ mergeHead = ZeroHash
    /\ index = commits[headRef].tree
    /\ worktree = commits[headRef].tree
    /\ shallow = << >>
    /\ pc = "idle"
    /\ strategy = FastForwardMerge
    /\ target = ZeroHash
    /\ ours = ZeroHash
    /\ ff = FALSE
    /\ base = ZeroHash
    /\ todo = {}
    /\ conflict = FALSE
    /\ result = "none"
    /\ merged = {}
    /\ touched = FALSE
    /\ pre = Snapshot
    /\ calls = 0
    /\ dryRun = FALSE
    /\ disk = IF OnDisk(dryRun) THEN Snapshot ELSE EmptyDirectory
    /\ handles = {}
    /\ SourceIdle

\* The names of the manifest's bases and plugins.
ItemNames == { "a", "b" }

\* The messages bubbletea hands to Update: a window size, and key presses.
SelectorMsgs ==
    { "WindowSizeMsg", "KeyUp", "KeyDown", "KeyEnter", "KeySpace", "KeyCtrlC",
      "KeyCtrlD", "KeyEsc", "KeyRunes" }

\* m.list.SelectedItem(): the item at the index, {} when the list has none there.
SelectedItem(its, cur) ==
    IF cur < Len(its) THEN { its[cur + 1] } ELSE {}

\* m.list.Update(msg) of bubbles/list with filtering disabled: the cursor keys
\* move the index within the list, ctrl+c, esc and the rune q quit, every
\* other message leaves the index alone.
ListUpdate(its, cur, msg) ==
    CASE msg = "KeyDown" ->
            [cursor |-> IF cur + 1 < Len(its) THEN cur + 1 ELSE cur, cmd |-> "none"]
      [] msg = "KeyUp" ->
            [cursor |-> IF cur > 0 THEN cur - 1 ELSE cur, cmd |-> "none"]
      [] msg \in { "KeyCtrlC", "KeyEsc", "KeyRunes" } ->
            [cursor |-> cur, cmd |-> "quit"]
      [] OTHER ->
            [cursor |-> cur, cmd |-> "none"]

\* What Update has been handed, and the list's current item at that moment.
Received(msg) ==
    Append(msgs, [msg |-> msg, index |-> cursor, current |-> SelectedItem(items, cursor)])

\* RunE has constructed the BaseSelector over the manifest's bases and runs
\* the program.
BaseSelectorInit ==
    /\ FreshRepository
    /\ items \in SeqsUpTo(ItemNames, MaxItems)
    /\ cursor = 0
    /\ selected = {}
    /\ selectedMap = NoEntries
    /\ input = << >>
    /\ ynResult = FALSE
    /\ done = FALSE
    /\ cmd = "none"
    /\ msgs = << >>
    /\ plugins = << >>
    /\ pluginIndex = 0
    /\ runPc = "selectBase"
    /\ runErr = "none"
    /\ log = << >>

BaseSelectorUpdate_EscSelects(msg) ==
    /\ runPc = "selectBase"
    /\ Len(msgs) < MaxMsgs
    /\ msgs' = Received(msg)
    /\ CASE msg = "WindowSizeMsg" ->
              /\ cmd' = "none"
              /\ UNCHANGED << cursor, selected >>
         [] msg \in { "KeyCtrlC", "KeyCtrlD" } ->
              /\ cmd' = "quit"
              /\ UNCHANGED << cursor, selected >>
         [] msg \in { "KeyEnter", "KeyEsc" } /\ SelectedItem(items, cursor) # {} ->
              /\ selected' = SelectedItem(items, cursor)
              /\ cmd' = "quit"
              /\ UNCHANGED cursor
         [] OTHER ->
              /\ cursor' = ListUpdate(items, cursor, msg).cursor
              /\ cmd' = ListUpdate(items, cursor, msg).cmd
              /\ UNCHANGED selected
    /\ UNCHANGED << items, selectedMap, input, ynResult, done >>
    /\ UNCHANGED << mergeVars, sourceVars, commandVars >>

\* BaseSelector.Update(msg)
BaseSelectorUpdate(msg) ==
    /\ runPc = "selectBase"
    /\ Len(msgs) < MaxMsgs
    /\ msgs' = Received(msg)
    /\ CASE msg = "WindowSizeMsg" ->
              /\ cmd' = "none"
              /\ UNCHANGED << cursor, selected >>
         [] msg \in { "KeyCtrlC", "KeyCtrlD", "KeyEsc" } ->
              /\ cmd' = "quit"
              /\ UNCHANGED << cursor, selected >>
         [] msg = "KeyEnter" /\ SelectedItem(items, cursor) # {} ->
              /\ selected' = SelectedItem(items, cursor)
              /\ cmd' = "quit"
              /\ UNCHANGED cursor
         [] OTHER ->
              /\ cursor' = ListUpdate(items, cursor, msg).cursor
              /\ cmd' = ListUpdate(items, cursor, msg).cmd
              /\ UNCHANGED selected
    /\ UNCHANGED << items, selectedMap, input, ynResult, done >>
    /\ UNCHANGED << mergeVars, sourceVars, commandVars >>

\* if _, err = program.Run(); err != nil { return err }
\* base := baseSelector.Selected(); if base == nil { return nil }
ProgramReturns(fails) ==
    /\ runPc = "selectBase"
    /\ fails \/ cmd = "quit"
    /\ IF fails THEN RunEReturns("ErrProgram")
       ELSE IF selected = {} THEN RunEReturns("none")
       ELSE runPc' = "origin" /\ UNCHANGED runErr
    /\ UNCHANGED << plugins, pluginIndex, log >>
    /\ UNCHANGED << mergeVars, sourceVars, componentVars >>

\* origin, err = repo.CreateRemote(...) with the URL of the selected base
CreateOrigin(fails) ==
    /\ runPc = "origin"
    /\ log' = Append(log, Event("remote", IF fails THEN "ErrRemoteExists" ELSE "ok"))
    /\ IF fails
       THEN RunEReturns("ErrRemoteExists")
       ELSE runPc' = "fetchOrigin" /\ UNCHANGED runErr
    /\ UNCHANGED << plugins, pluginIndex >>
    /\ UNCHANGED << mergeVars, sourceVars, componentVars >>

BaseSelectorNext ==
    \/ \E msg \in SelectorMsgs : BaseSelectorUpdate(msg)
    \/ \E fails \in BOOLEAN : ProgramReturns(fails)
    \/ \E fails \in BOOLEAN : CreateOrigin(fails)

BaseSelectorSpec == BaseSelectorInit /\ [][BaseSelectorNext]_vars

(***************************************************************************)
(* Package components: BaseMultiSelector *)
(***************************************************************************)

\* RunE has constructed the BaseMultiSelector over the manifest's plugins and
\* runs the program.
MultiSelectorInit ==
    /\ FreshRepository
    /\ items \in SeqsUpTo(ItemNames, MaxItems)
    /\ cursor = 0
    /\ selected = {}
    /\ selectedMap = NoEntries
    /\ input = << >>
    /\ ynResult = FALSE
    /\ done = FALSE
    /\ cmd = "none"
    /\ msgs = << >>
    /\ plugins = << >>
    /\ pluginIndex = 0
    /\ runPc = "selectPlugins"
    /\ runErr = "none"
    /\ log = << >>

\* delete(m.selected, index)
Without(map, i) == [ k \in (DOMAIN map) \ {i} |-> map[k] ]

\* m.selected[index] = item
With(map, i, item) == [ k \in (DOMAIN map) \cup {i} |-> IF k = i THEN item ELSE map[k] ]

BaseMultiSelectorUpdate_SpaceAdds(msg) ==
    /\ runPc = "selectPlugins"
    /\ Len(msgs) < MaxMsgs
    /\ msgs' = Received(msg)
    /\ CASE msg = "WindowSizeMsg" ->
              /\ cmd' = "none"
              /\ UNCHANGED << cursor, selectedMap >>
         [] msg \in { "KeyCtrlC", "KeyCtrlD", "KeyEsc", "KeyEnter" } ->
              /\ cmd' = "quit"
              /\ UNCHANGED << cursor, selectedMap >>
         [] msg = "KeySpace" ->
              /\ selectedMap' =
                    IF SelectedItem(items, cursor) = {} THEN selectedMap
                    ELSE With(selectedMap, cursor, items[cursor + 1])
              /\ cursor' = ListUpdate(items, cursor, msg).cursor
              /\ cmd' = ListUpdate(items, cursor, msg).cmd
         [] OTHER ->
              /\ cursor' = ListUpdate(items, cursor, msg).cursor
              /\ cmd' = ListUpdate(items, cursor, msg).cmd
              /\ UNCHANGED selectedMap
    /\ UNCHANGED << items, selected, input, ynResult, done >>
    /\ UNCHANGED << mergeVars, sourceVars, commandVars >>

\* BaseMultiSelector.Update(msg): the Space case toggles and then falls
\* through to m.list.Update(msg).
BaseMultiSelectorUpdate(msg) ==
    /\ runPc = "selectPlugins"
    /\ Len(msgs) < MaxMsgs
    /\ msgs' = Received(msg)
    /\ CASE msg = "WindowSizeMsg" ->
              /\ cmd' = "none"
              /\ UNCHANGED << cursor, selectedMap >>
         [] msg \in { "KeyCtrlC", "KeyCtrlD", "KeyEsc", "KeyEnter" } ->
              /\ cmd' = "quit"
              /\ UNCHANGED << cursor, selectedMap >>
         [] msg = "KeySpace" ->
              /\ selectedMap' =
                    IF SelectedItem(items, cursor) = {} THEN selectedMap
                    ELSE IF cursor \in DOMAIN selectedMap
                    THEN Without(selectedMap, cursor)
                    ELSE With(selectedMap, cursor, items[cursor + 1])
              /\ cursor' = ListUpdate(items, cursor, msg).cursor
              /\ cmd' = ListUpdate(items, cursor, msg).cmd
         [] OTHER ->
              /\ cursor' = ListUpdate(items, cursor, msg).cursor
              /\ cmd' = ListUpdate(items, cursor, msg).cmd
              /\ UNCHANGED selectedMap
    /\ UNCHANGED << items, selected, input, ynResult, done >>
    /\ UNCHANGED << mergeVars, sourceVars, commandVars >>

\* BaseMultiSelector.Selected(): the values of the map, in each order the
\* range over the map may take.
MultiSelected(map) ==
    { q \in SeqsUpTo(ItemNames, MaxItems) :
        /\ Len(q) = Cardinality(DOMAIN map)
        /\ \E order \in [ 1..Len(q) -> DOMAIN map ] :
              /\ \A a \in 1..Len(q) : \A b \in 1..Len(q) : a # b => order[a] # order[b]
              /\ \A a \in 1..Len(q) : q[a] = map[order[a]] }

MultiSelectorNext == \E msg \in SelectorMsgs : BaseMultiSelectorUpdate(msg)

MultiSelectorSpec == MultiSelectorInit /\ [][MultiSelectorNext]_vars

(***************************************************************************)
(* Package components: YesNo *)
(***************************************************************************)

\* ti.CharLimit = 3
CharLimit == 3

\* The characters a key press can type into the prompt.
Typeable == { "y", "Y", "e", "s", " " }

\* The messages bubbletea hands to YesNo.Update.
YesNoMsgs ==
    Typeable \cup { "KeyEnter", "KeyEsc", "KeyCtrlC", "KeyBackspace", "WindowSizeMsg" }

\* strings.TrimSpace over a sequence of characters.
RECURSIVE TrimLeft(_)
TrimLeft(v) ==
    IF v # << >> /\ Head(v) = " " THEN TrimLeft(Tail(v)) ELSE v

RECURSIVE TrimRight(_)
TrimRight(v) ==
    IF v # << >> /\ v[Len(v)] = " " THEN TrimRight(SubSeq(v, 1, Len(v) - 1)) ELSE v

TrimSpace(v) == TrimRight(TrimLeft(v))

\* strings.ToLower over a sequence of characters.
ToLower(v) == [ k \in 1..Len(v) |-> IF v[k] = "Y" THEN "y" ELSE v[k] ]

\* value == "y" || value == "yes"
IsYes(value) == value = << "y" >> \/ value = << "y", "e", "s" >>

\* m.input.Update(msg) of bubbles/textinput, the cursor at the end: a typed
\* character is appended up to CharLimit, backspace deletes the last one.
InputUpdate(v, msg) ==
    CASE msg \in Typeable -> IF Len(v) < CharLimit THEN Append(v, msg) ELSE v
      [] msg = "KeyBackspace" -> IF v = << >> THEN v ELSE SubSeq(v, 1, Len(v) - 1)
      [] OTHER -> v

\* RunE has constructed the YesNo prompt and runs the program.
YesNoInit ==
    /\ FreshRepository
    /\ ComponentsIdle
    /\ plugins = << >>
    /\ pluginIndex = 0
    /\ runPc = "prompt"
    /\ runErr = "none"
    /\ log = << >>

YesNoUpdate_NoDoneGuard(msg) ==
    /\ runPc = "prompt"
    /\ Len(msgs) < MaxKeys
    /\ msgs' = Append(msgs, [msg |-> msg, value |-> input])
    /\ CASE msg = "KeyEnter" ->
                /\ ynResult' = IsYes(ToLower(TrimSpace(input)))
                /\ done' = TRUE
                /\ cmd' = "quit"
                /\ UNCHANGED input
           [] msg \in { "KeyCtrlC", "KeyEsc" } ->
                /\ ynResult' = FALSE
                /\ done' = TRUE
                /\ cmd' = "quit"
                /\ UNCHANGED input
           [] OTHER ->
                /\ input' = InputUpdate(input, msg)
                /\ cmd' = IF done THEN "quit" ELSE "none"
                /\ UNCHANGED << ynResult, done >>
    /\ UNCHANGED << items, cursor, selected, selectedMap >>
    /\ UNCHANGED << mergeVars, sourceVars, commandVars >>

\* YesNo.Update(msg)
YesNoUpdate(msg) ==
    /\ runPc = "prompt"
    /\ Len(msgs) < MaxKeys
    /\ msgs' = Append(msgs, [msg |-> msg, value |-> input])
    /\ IF done
       THEN /\ cmd' = "quit"
            /\ UNCHANGED << input, ynResult, done >>
       ELSE CASE msg = "KeyEnter" ->
                    /\ ynResult' = IsYes(ToLower(TrimSpace(input)))
                    /\ done' = TRUE
                    /\ cmd' = "quit"
                    /\ UNCHANGED input
               [] msg \in { "KeyCtrlC", "KeyEsc" } ->
                    /\ ynResult' = FALSE
                    /\ done' = TRUE
                    /\ cmd' = "quit"
                    /\ UNCHANGED input
               [] OTHER ->
                    /\ input' = InputUpdate(input, msg)
                    /\ cmd' = "none"
                    /\ UNCHANGED << ynResult, done >>
    /\ UNCHANGED << items, cursor, selected, selectedMap >>
    /\ UNCHANGED << mergeVars, sourceVars, commandVars >>

YesNoNext == \E msg \in YesNoMsgs : YesNoUpdate(msg)

YesNoSpec == YesNoInit /\ [][YesNoNext]_vars

----------------------------------------------------------------------------
(* Vocabulary of the properties *)

SupportedStrategies == {FastForwardOnly, FastForwardMerge, OrtMerge}

\* The commits reachable from the commits of S by parent links, S included.
RECURSIVE ParentClosure(_)
ParentClosure(S) ==
    LET more == S \cup UNION { Parents(c) : c \in S }
    IN  IF more = S THEN S ELSE ParentClosure(more)

StrictAncestor(a, b) == a # b /\ a \in ParentClosure({b})

Unrelated(a, b) == ParentClosure({a}) \cap ParentClosure({b}) = {}

\* The running (or last) call left the repository as it found it.
NoMutation == Snapshot = pre

\* The working tree and the index were those of the head commit when the call started.
CleanStart ==
    /\ pre.index = pre.commits[pre.headRef].tree
    /\ pre.worktree = pre.index

\* C1: when the head A is a strict ancestor of the target B and there is no
\* shallow boundary, isFastForward(A, B) holds and Merge under each of the three
\* strategies returns no error, points the head at B and creates no commit.
C1_FastForward ==
    ( /\ pc = "done"
      /\ target \in DOMAIN pre.commits
      /\ shallow = << >>
      /\ strategy \in SupportedStrategies
      /\ StrictAncestor(pre.headRef, target) )
    => ( /\ isFastForward(pre.headRef, target, shallow)
         /\ result = "ok"
         /\ headRef = target
         /\ commits = pre.commits )

\* C2: FastForwardOnly with a false fast-forward check returns
\* FastForwardNotPossible and changes nothing.
C2_FastForwardOnlyFails ==
    ( /\ pc = "done"
      /\ target \in DOMAIN pre.commits
      /\ strategy = FastForwardOnly
      /\ ~isFastForward(pre.headRef, target, shallow) )
    => ( /\ result = "ErrFastForwardMergeNotPossible"
         /\ NoMutation )

C2_Witness ==
    /\ pc = "done"
    /\ target \in DOMAIN pre.commits
    /\ strategy = FastForwardOnly
    /\ result = "ErrFastForwardMergeNotPossible"
    /\ ~(pre.headRef \in ParentClosure({target}))

\* C3: any other strategy selector is rejected with UnsupportedStrategy before
\* the repository is read or changed.
C3_UnsupportedFirst ==
    ( pc = "done" /\ strategy \notin SupportedStrategies )
    => ( /\ result = "ErrUnsupportedMergeStrategy"
         /\ ~touched
         /\ NoMutation )

\* The errors that report unrelated histories (the NoCommonAncestor of the taxonomy).
NoCommonAncestorErrors == {"ErrUnrelatedHistories", "unable to merge with different history"}

\* C4: with unrelated histories, FastForwardMerge and OrtMerge return the
\* NoCommonAncestor error and change nothing.
C4_UnrelatedHistories ==
    ( /\ pc = "done"
      /\ target \in DOMAIN pre.commits
      /\ strategy \in {FastForwardMerge, OrtMerge}
      /\ Unrelated(pre.headRef, target) )
    => ( /\ result \in NoCommonAncestorErrors
         /\ NoMutation )

C4_Witness ==
    /\ pc = "done"
    /\ target \in DOMAIN pre.commits
    /\ Unrelated(pre.headRef, target)
    /\ strategy = OrtMerge
    /\ result \in NoCommonAncestorErrors

\* The content of path p in tree t: a one-element sequence, empty when t has no p.
At(t, p) == IF p \in DOMAIN t THEN << t[p] >> ELSE << >>

\* The running (or last) call entered the three-way merge with a merge base.
ThreeWay == base # ZeroHash

\* The call returned after the loop had visited every changed path.
LoopFinished == pc = "done" /\ ThreeWay /\ todo = {}

OursChanged(p) == At(commits[base].tree, p) # At(commits[ours].tree, p)
TheirsChanged(p) == At(commits[base].tree, p) # At(commits[target].tree, p)

\* C5: when a path conflicted in a three-way merge, Merge returns MergeConflict,
\* MERGE_HEAD holds the hash of theirs, no commit is created and the head still
\* points at ours.
C5_ConflictOutcome ==
    ( pc = "done" /\ conflict )
    => ( /\ result = "ErrMergeConflict"
         /\ mergeHead = target
         /\ commits = pre.commits
         /\ headRef = pre.headRef )

\* What C6 promises of the step that follows the resolution loop.
CreatesMergeCommit ==
    /\ Cardinality(DOMAIN commits') = Cardinality(DOMAIN commits) + 1
    /\ \A c \in DOMAIN commits : c \in DOMAIN commits' /\ commits'[c] = commits[c]
    /\ headRef' \in (DOMAIN commits') \ (DOMAIN commits)
    /\ commits'[headRef'].parents = << ours, target >>
    /\ commits'[headRef'].author = commits[ours].author
    /\ commits'[headRef'].committer = commits[ours].committer

\* C6 as stated: a three-way merge that ends without conflict and with a
\* status that is not clean creates exactly one commit, with parents
\* <<ours, theirs>> and the author and committer of ours, and the head points
\* at it.
C6_MergeCommit_Original ==
    [][ ( pc = "resolve" /\ todo = {} /\ ~conflict /\ ~IsClean )
        => CreatesMergeCommit ]_vars

\* C6, amended: a three-way merge that ends without conflict and with a staged
\* tree that differs from the tree of ours creates exactly one commit, with
\* parents <<ours, theirs>> and the author and committer of ours, and the head
\* points at it.
C6_MergeCommit ==
    [][ ( pc = "resolve" /\ todo = {} /\ ~conflict /\ index # commits[ours].tree )
        => CreatesMergeCommit ]_vars

C6_Witness ==
    /\ LoopFinished
    /\ result = "ok"
    /\ headRef \notin DOMAIN pre.commits
    /\ commits[headRef].parents = << pre.headRef, target >>

\* Theirs brings no change that ours does not already have.
NothingNew ==
    \A p \in Paths :
        TheirsChanged(p) => At(commits[target].tree, p) = At(commits[ours].tree, p)

\* The index holds the tree of the head commit and the working tree the same files.
StatusClean == index = commits[headRef].tree /\ worktree = index

\* C7 as stated: a three-way merge of a target that brings nothing new ends
\* with a clean status, no error, no commit and the head unchanged.
C7_NoOpMerge_Original ==
    ( pc = "done" /\ ThreeWay /\ NothingNew )
    => ( /\ result = "ok"
         /\ StatusClean
         /\ commits = pre.commits
         /\ headRef = pre.headRef )

\* C7, amended: the same, for a call that starts with the working tree and
\* index equal to ours.
C7_NoOpMerge ==
    ( pc = "done" /\ ThreeWay /\ NothingNew /\ CleanStart )
    => ( /\ result = "ok"
         /\ StatusClean
         /\ commits = pre.commits
         /\ headRef = pre.headRef )

C7_Witness ==
    /\ LoopFinished
    /\ NothingNew
    /\ CleanStart
    /\ \E p \in Paths : OursChanged(p)
    /\ \E p \in Paths : TheirsChanged(p)
    /\ result = "ok"
    /\ StatusClean

\* The merge base a call on the starting repository would use (one, if any).
PreBase == CHOOSE b \in MergeBase(pre.headRef, target) : TRUE

PreChanged(side, p) == At(commits[PreBase].tree, p) # At(commits[side].tree, p)

\* Ours and theirs changed disjoint sets of paths relative to the merge base.
DisjointChanges == \A p \in Paths : ~(PreChanged(pre.headRef, p) /\ PreChanged(target, p))

\* Base with ours' change applied on ours' paths and theirs' on theirs' paths.
Converged(p) ==
    IF PreChanged(pre.headRef, p) THEN At(commits[pre.headRef].tree, p)
    ELSE At(commits[target].tree, p)

\* C8 as stated: with disjoint change sets and a working tree and index equal
\* to ours, Merge reports no conflict and the index holds, for every path, base
\* with both sides' changes applied.
C8_Convergence_Original ==
    ( /\ pc = "done"
      /\ strategy \in SupportedStrategies
      /\ target \in DOMAIN pre.commits
      /\ MergeBase(pre.headRef, target) # {}
      /\ CleanStart
      /\ DisjointChanges )
    => ( /\ ~conflict
         /\ result # "ErrMergeConflict"
         /\ \A p \in Paths : At(index, p) = Converged(p) )

\* C8, amended: the same for a call that takes the three-way path.
C8_Convergence ==
    ( /\ pc = "done"
      /\ ThreeWay
      /\ CleanStart
      /\ DisjointChanges )
    => ( /\ ~conflict
         /\ result # "ErrMergeConflict"
         /\ \A p \in Paths : At(index, p) = Converged(p) )

C8_Witness ==
    /\ LoopFinished
    /\ CleanStart
    /\ DisjointChanges
    /\ \E p \in Paths : PreChanged(pre.headRef, p)
    /\ \E p \in Paths : PreChanged(target, p) /\ At(index, p) = At(commits[target].tree, p)
    /\ result = "ok"

\* Both sides inserted, or both modified, path p, with the same content.
IdenticalChange(p) ==
    /\ OursChanged(p)
    /\ TheirsChanged(p)
    /\ At(commits[ours].tree, p) = At(commits[target].tree, p)
    /\ At(commits[ours].tree, p) # << >>

\* What resolving path p does in the current state of the loop.
Resolving(p) == Resolve(impl, worktree, index, p, Plan[p])

DeleteModify(p) ==
    /\ OursChanged(p)
    /\ TheirsChanged(p)
    /\ (At(commits[ours].tree, p) = << >>) # (At(commits[target].tree, p) = << >>)

Survivor(p) ==
    IF At(commits[ours].tree, p) = << >>
    THEN At(commits[target].tree, p)
    ELSE At(commits[ours].tree, p)

\* C10: for a delete/modify pair, in either orientation, the content of the
\* side that did not delete is written to the working tree and staged, and the
\* pair raises no conflict.
C10_DeleteModify ==
    \A p \in Paths :
        ( pc = "resolve" /\ p \in todo /\ DeleteModify(p) )
        => ( /\ Resolving(p).err = "none"
             /\ ~Resolving(p).conflicts
             /\ ~Resolving(p).merger
             /\ At(Resolving(p).wt, p) = Survivor(p)
             /\ At(Resolving(p).idx, p) = Survivor(p) )

C10_Witness ==
    \E p \in Paths :
        /\ pc = "resolve"
        /\ ThreeWay
        /\ p \notin todo
        /\ DeleteModify(p)
        /\ At(commits[ours].tree, p) = << >>
        /\ At(worktree, p) = Survivor(p)
        /\ At(index, p) = Survivor(p)
        /\ ~conflict

\* The texts of path p in the base, ours and theirs commits of the running call.
BaseText(p) == commits[base].tree[p]
OursText(p) == commits[ours].tree[p]
TheirsText(p) == commits[target].tree[p]

\* Ours and theirs both modified path p, to different contents.
BothModified(p) ==
    /\ p \in DOMAIN commits[base].tree
    /\ p \in DOMAIN commits[ours].tree
    /\ p \in DOMAIN commits[target].tree
    /\ OursText(p) # BaseText(p)
    /\ TheirsText(p) # BaseText(p)
    /\ OursText(p) # TheirsText(p)

\* Line i of path p was changed on both sides, differently.
Clash(p, i) ==
    /\ OursText(p)[i] # BaseText(p)[i]
    /\ TheirsText(p)[i] # BaseText(p)[i]
    /\ OursText(p)[i] # TheirsText(p)[i]

Clashes(p) == \E i \in DOMAIN BaseText(p) : Clash(p, i)

\* The number of runs of consecutive lines of p changed differently on both sides.
ClashRuns(p) ==
    Cardinality({ i \in DOMAIN BaseText(p) : Clash(p, i) /\ (i = 1 \/ ~Clash(p, i - 1)) })

\* How many lines of the file are the given line.
Count(file, line) == Cardinality({ i \in DOMAIN file : file[i] = line })

\* The file holds n conflict regions, each with its three markers.
HasRegions(file, n) ==
    /\ Count(file, OpenMarker(OursLabel)) = n
    /\ Count(file, Separator) = n
    /\ Count(file, CloseMarker(TheirsLabel)) = n

\* C11 as stated: when ours and theirs both modify a path and their contents
\* differ, the file written has exactly one conflict region with its three
\* markers, the conflict flag is set and the path is not staged.
C11_ConflictContainment_Original ==
    \A p \in Paths :
        ( pc = "resolve" /\ p \in todo /\ BothModified(p) )
        => ( /\ Resolving(p).err = "none"
             /\ HasRegions(Resolving(p).wt[p], 1)
             /\ Resolving(p).conflicts
             /\ Resolving(p).idx = index )

\* C11, amended: when ours and theirs both modify a path and change some line
\* of base differently, the file written has one conflict region with its three
\* markers for each run of such lines, the conflict flag is set and the path is
\* not staged.
C11_ConflictContainment ==
    \A p \in Paths :
        ( pc = "resolve" /\ p \in todo /\ BothModified(p) /\ Clashes(p) )
        => ( /\ Resolving(p).err = "none"
             /\ HasRegions(Resolving(p).wt[p], ClashRuns(p))
             /\ Resolving(p).conflicts
             /\ Resolving(p).idx = index )

C11_Witness ==
    /\ pc = "resolve"
    /\ "f" \notin todo
    /\ ThreeWay
    /\ BothModified("f")
    /\ ClashRuns("f") = 2
    /\ HasRegions(worktree["f"], 2)
    /\ conflict
    /\ index = pre.index

\* What the text merger returns for path p of the running call.
TextMerge(p) == MergeText(OursText(p), BaseText(p), TheirsText(p), OursLabel, TheirsLabel)

\* Path p goes to the text merger and the merger reports a conflict for it.
PathConflicts(p) == BothModified(p) /\ TextMerge(p).Conflicts

\* The content the resolution of path p leaves for it (none for a deletion).
Resolved(p) ==
    IF ~TheirsChanged(p) THEN At(commits[ours].tree, p)
    ELSE IF ~OursChanged(p) THEN At(commits[target].tree, p)
    ELSE IF BothModified(p) THEN << TextMerge(p).Result >>
    ELSE IF DeleteModify(p) THEN Survivor(p)
    ELSE At(commits[ours].tree, p)

\* The staging rule for one path sent to the text merger.
StagingRule(p) ==
    /\ Resolving(p).err = "none"
    /\ Resolving(p).merger
    /\ At(Resolving(p).wt, p) = << TextMerge(p).Result >>
    /\ (At(Resolving(p).idx, p) = << TextMerge(p).Result >>) <=> ~TextMerge(p).Conflicts
    /\ TextMerge(p).Conflicts => Resolving(p).idx = index

\* The state of the index when Merge ends in Conflicted.
ConflictedIndex ==
    \A p \in DOMAIN Plan :
        IF PathConflicts(p)
        THEN At(index, p) = At(pre.index, p)
        ELSE Resolved(p) # << >> => At(index, p) = Resolved(p)

\* C12 as stated: the merged text of a path sent to the text merger is always
\* written, and the path is staged exactly when the merger reported no
\* conflict; when Merge ends in Conflicted every conflicted path is unstaged
\* and every other resolved inserted or modified path is staged.
C12_StagingRule_Original ==
    /\ \A p \in Paths :
          ( pc = "resolve" /\ p \in todo /\ BothModified(p) ) => StagingRule(p)
    /\ ( pc = "done" /\ result = "ErrMergeConflict" ) => ConflictedIndex

\* C12, amended: the same for a call that starts with the working tree and
\* index equal to ours.
C12_StagingRule ==
    /\ \A p \in Paths :
          ( pc = "resolve" /\ p \in todo /\ BothModified(p) ) => StagingRule(p)
    /\ ( pc = "done" /\ result = "ErrMergeConflict" /\ CleanStart ) => ConflictedIndex

C12_Witness ==
    /\ pc = "done"
    /\ result = "ErrMergeConflict"
    /\ CleanStart
    /\ \E p \in Paths : \E q \in Paths \ {p} :
          /\ PathConflicts(p)
          /\ BothModified(q)
          /\ ~PathConflicts(q)
          /\ At(index, q) = << TextMerge(q).Result >>
          /\ At(index, p) = At(pre.index, p)
          /\ At(worktree, p) = << TextMerge(p).Result >>

\* C13: a three-way Merge that visits every changed path returns MergeConflict
\* exactly when the text merge of at least one path reported a conflict, however
\* many paths merged cleanly and in whatever order the paths were visited.
C13_ConflictFlag ==
    LoopFinished
    => ( /\ conflict <=> (\E p \in DOMAIN Plan : PathConflicts(p))
         /\ (result = "ErrMergeConflict") <=> conflict )

C13_Witness ==
    /\ LoopFinished
    /\ \E p \in Paths : \E q \in Paths \ {p} :
          /\ PathConflicts(p)
          /\ BothModified(q)
          /\ ~PathConflicts(q)
          /\ merged = {p, q}
    /\ result = "ErrMergeConflict"

\* No line of path p was changed on both sides.
DisjointLines(p) ==
    \A i \in DOMAIN BaseText(p) :
        OursText(p)[i] = BaseText(p)[i] \/ TheirsText(p)[i] = BaseText(p)[i]

\* Every line changed on one side in that side's version, every other line as in base.
BothEdits(p) ==
    [ i \in DOMAIN BaseText(p) |->
        IF OursText(p)[i] # BaseText(p)[i] THEN OursText(p)[i]
        ELSE IF TheirsText(p)[i] # BaseText(p)[i] THEN TheirsText(p)[i]
        ELSE BaseText(p)[i] ]

\* C14: when ours and theirs changed disjoint lines of base, the text merge
\* Merge asks for reports no conflict and the text it writes carries, for each
\* line, the version of the side that changed it, and the base line otherwise.
C14_MergeTextClean ==
    \A p \in Paths :
        ( pc = "resolve" /\ p \in todo /\ BothModified(p) /\ DisjointLines(p) )
        => ( /\ Resolving(p).merger
             /\ ~Resolving(p).conflicts
             /\ Resolving(p).wt[p] = BothEdits(p)
             /\ Resolving(p).idx[p] = BothEdits(p) )

C14_Witness ==
    /\ pc = "resolve"
    /\ "f" \notin todo
    /\ OursText("f") = << "a", "B", "c" >>
    /\ BaseText("f") = << "a", "b", "c" >>
    /\ TheirsText("f") = << "a", "b", "C" >>
    /\ worktree["f"] = << "a", "B", "C" >>
    /\ index["f"] = << "a", "B", "C" >>
    /\ ~conflict

\* Lines i..j of path p are a maximal run of lines changed differently on the
\* two sides.
ClashRun(p, i, j) ==
    /\ i <= j
    /\ \A k \in i..j : Clash(p, k)
    /\ i = 1 \/ ~Clash(p, i - 1)
    /\ j = Len(BaseText(p)) \/ ~Clash(p, j + 1)

\* From line a on, the file holds the opening marker with the label of ours,
\* the lines of ours, the separator, the lines of theirs and the closing marker
\* with the label of theirs.
RegionAt(file, a, oursLines, theirsLines) ==
    LET n == Len(oursLines)
    IN  /\ a + 2 * n + 2 <= Len(file)
        /\ file[a] = OpenMarker(OursLabel)
        /\ SubSeq(file, a + 1, a + n) = oursLines
        /\ file[a + n + 1] = Separator
        /\ SubSeq(file, a + n + 2, a + 2 * n + 1) = theirsLines
        /\ file[a + 2 * n + 2] = CloseMarker(TheirsLabel)

\* C15: when the same base line is changed to different content on the two
\* sides, the text merge Merge asks for reports a conflict and the text it
\* writes holds, in this order, the opening marker with the label of ours, the
\* content of ours, the separator, the content of theirs and the closing marker
\* with the label of theirs.
C15_MergeTextConflict ==
    \A p \in Paths :
        ( pc = "resolve" /\ p \in todo /\ BothModified(p) /\ Clashes(p) )
        => ( /\ Resolving(p).merger
             /\ Resolving(p).conflicts
             /\ \A i \in 1..3, j \in 1..3 :
                   ClashRun(p, i, j)
                   => \E a \in DOMAIN Resolving(p).wt[p] :
                         RegionAt(Resolving(p).wt[p], a,
                                  SubSeq(OursText(p), i, j), SubSeq(TheirsText(p), i, j)) )

C15_Witness ==
    /\ pc = "resolve"
    /\ "f" \notin todo
    /\ BothModified("f")
    /\ ClashRun("f", 1, 1)
    /\ worktree["f"] = << "<<<<<<< main", "Y", "=======", "A", ">>>>>>> plugin/main",
                          "b", "c" >>
    /\ conflict

\* C16: the merge commit is the last step of a call, so a call that does not
\* return success has created no commit and has not moved the head to one.
C16_CommitIsLast ==
    ( pc = "done" /\ result # "ok" )
    => ( /\ commits = pre.commits
         /\ headRef \in DOMAIN pre.commits )

\* C17: the progress sink is only written to: whatever a step of Merge does with
\* the sink absent it also does with the sink present, and the other way round.
C17_ProgressObservational ==
    [][ /\ FastForward(FALSE) <=> FastForward(TRUE)
        /\ \A readFails \in BOOLEAN :
              Commit(FALSE, readFails) <=> Commit(TRUE, readFails) ]_vars

\* C18: with --dry-run nothing in the target directory on the real filesystem
\* is created, changed or removed, whatever the merges do.
C18_DryRun == dryRun => disk = EmptyDirectory

\* A dry run whose merge has created a commit and moved the branch in memory.
C18_Witness ==
    /\ dryRun
    /\ pc = "done"
    /\ result = "ok"
    /\ headRef \notin DOMAIN pre.commits
    /\ worktree # pre.worktree
    /\ disk = EmptyDirectory

\* Side `side` of the running call changed path p relative to the merge base.
SideChanged(side, p) == At(commits[base].tree, p) # At(commits[side].tree, p)

SideDeleted(side, p) ==
    p \in DOMAIN commits[base].tree /\ p \notin DOMAIN commits[side].tree

\* The change of path p in the diff from the merge base to `side`.
ChangeOf(side, p) ==
    [from |-> Entry(commits[base].tree, p), to |-> Entry(commits[side].tree, p)]

\* C19: the keys of the merge plan are exactly the paths changed in either
\* diff, a deletion under its pre-change path; the ours slot of a key is set
\* exactly when the base-to-ours diff changes that path, and then holds that
\* change, likewise the theirs slot; a deleted path keeps its own key.
C19_MergePlan ==
    pc = "resolve" =>
        /\ DOMAIN Plan = { p \in Paths : SideChanged(ours, p) \/ SideChanged(target, p) }
        /\ \A p \in DOMAIN Plan :
              /\ ( Plan[p].ours # NoChange ) <=> SideChanged(ours, p)
              /\ ( Plan[p].theirs # NoChange ) <=> SideChanged(target, p)
              /\ SideChanged(ours, p) => Plan[p].ours = ChangeOf(ours, p)
              /\ SideChanged(target, p) => Plan[p].theirs = ChangeOf(target, p)
        /\ \A p \in Paths :
              /\ SideDeleted(ours, p)
                    => ( p \in DOMAIN Plan /\ Action(Plan[p].ours) = "Delete" )
              /\ SideDeleted(target, p)
                    => ( p \in DOMAIN Plan /\ Action(Plan[p].theirs) = "Delete" )

\* A plan with two keys: one path deleted by ours and modified by theirs, the
\* other deleted by theirs alone.
C19_Witness ==
    /\ pc = "resolve"
    /\ \E p \in Paths : \E q \in Paths \ {p} :
          /\ SideDeleted(ours, p) /\ SideChanged(target, p) /\ ~SideDeleted(target, p)
          /\ SideDeleted(target, q) /\ ~SideChanged(ours, q)
          /\ DOMAIN Plan = {p, q}

\* The branches of the loop body that the pair of path p enters.
CasesApplied(p) == { case \in ResolutionCases : CaseGuard(case, Plan[p]) }

\* C20: every pair of the plan has a side set and enters exactly one of the
\* six resolution branches, so none falls through the loop body unresolved.
C20_CaseResolution ==
    pc = "resolve" =>
        \A p \in DOMAIN Plan :
            /\ Plan[p].ours # NoChange \/ Plan[p].theirs # NoChange
            /\ Cardinality(CasesApplied(p)) = 1

\* A plan whose two pairs enter different branches, one of them the branch for
\* a path both sides inserted.
C20_Witness ==
    /\ pc = "resolve"
    /\ \E p \in DOMAIN Plan : \E q \in DOMAIN Plan :
          /\ CasesApplied(p) = {"ModifiedByBoth"}
          /\ Action(Plan[p].ours) = "Insert"
          /\ CasesApplied(q) = {"DeletedByUs"}

\* Only one side changed path p; the side that did.
OneSideChanged(p) == SideChanged(ours, p) # SideChanged(target, p)

ChangedSide(p) == IF SideChanged(ours, p) THEN ours ELSE target

\* The outcome of resolving a path only one side changed: that side's new
\* content written and staged, or the path gone from both layers.
SingleApplied(p) ==
    /\ Resolving(p).err = "none"
    /\ ~Resolving(p).conflicts
    /\ At(Resolving(p).wt, p) = At(commits[ChangedSide(p)].tree, p)
    /\ At(Resolving(p).idx, p) = At(commits[ChangedSide(p)].tree, p)

DeleteResolution(p) ==
    \/ OneSideChanged(p) /\ SideDeleted(ChangedSide(p), p)
    \/ SideDeleted(ours, p) /\ SideDeleted(target, p)

\* C22: a delete resolution never aborts the merge and raises no conflict, and
\* leaves the path absent from the working tree and from the index, also when
\* the path was already absent from one of them or from both.
C22_IdempotentDelete ==
    \A p \in Paths :
        ( pc = "resolve" /\ p \in todo /\ DeleteResolution(p) )
        => ( /\ Resolving(p).err = "none"
             /\ ~Resolving(p).conflicts
             /\ p \notin DOMAIN Resolving(p).wt
             /\ p \notin DOMAIN Resolving(p).idx )

\* w.Commit is about to fail: the loop is over without conflict, the status is
\* not clean and the index holds nothing to commit.
CommitFails ==
    /\ pc = "resolve"
    /\ todo = {}
    /\ ~conflict
    /\ ~StatusClean
    /\ index = commits[ours].tree

\* C23: when a call Merge makes to the object store, the working tree or the
\* index fails, the commit creation included, Merge stops there and returns
\* that error.
C23_NoSwallowedError ==
    [][ /\ CommitFails => ( pc' = "done" /\ result' = "ErrEmptyCommit" )
        /\ \A p \in Paths :
              ( ResolvePath(p) /\ Resolving(p).err \notin {"none", "panic"} )
              => ( pc' = "done" /\ result' = Resolving(p).err )
        /\ ( OpenRepository /\ target \notin DOMAIN commits )
              => ( pc' = "done" /\ result' = "ErrObjectNotFound" ) ]_vars

\* The call ended inside the loop over the plan, on a path it could not resolve.
Aborted == pc = "done" /\ ThreeWay /\ todo # {}

\* What resolving path p does to the repository the call started with.
ResolvingFromStart(p) == Resolve(impl, pre.worktree, pre.index, p, Plan[p])

\* C24: when the resolution of a path aborts the merge, the paths resolved
\* before it keep their resolved working-tree file and index entry, the head
\* still points at ours, MERGE_HEAD is not written and no commit is created,
\* and the call returns neither success nor MergeConflict.
C24_AbortWithoutRollback ==
    Aborted
    => ( /\ \A p \in (DOMAIN Plan) \ todo :
               /\ At(worktree, p) = At(ResolvingFromStart(p).wt, p)
               /\ At(index, p) = At(ResolvingFromStart(p).idx, p)
         /\ headRef = ours
         /\ headRef = pre.headRef
         /\ mergeHead = pre.mergeHead
         /\ commits = pre.commits
         /\ result \notin {"ok", "ErrMergeConflict"} )

\* An aborted call that had already rewritten the file and the index entry of
\* another path.
C24_Witness ==
    /\ Aborted
    /\ result = "ErrEntryNotFound"
    /\ \E p \in (DOMAIN Plan) \ todo :
          /\ At(worktree, p) # At(pre.worktree, p)
          /\ At(index, p) # At(pre.index, p)
          /\ At(worktree, p) = At(ResolvingFromStart(p).wt, p)

\* The working-tree file, the index entry and the conflict flag of path p that
\* follow from the three commits and the repository at the start of the call,
\* whatever the order of the loop.
ExpectedFile(p) ==
    IF p \in DOMAIN Plan THEN At(ResolvingFromStart(p).wt, p) ELSE At(pre.worktree, p)

ExpectedEntry(p) ==
    IF p \in DOMAIN Plan THEN At(ResolvingFromStart(p).idx, p) ELSE At(pre.index, p)

ExpectedConflict == \E p \in DOMAIN Plan : ResolvingFromStart(p).conflicts

\* C25: a three-way merge ends with the working tree, the index and the
\* conflict flag that the three commits determine, in whatever order the loop
\* visited the paths, and with the outcome they determine: MergeConflict, or
\* no commit, or a commit of that index with the parents ours and theirs.
C25_OrderIndependence ==
    ( pc = "done" /\ ThreeWay /\ result \notin {"ErrObjectRead", "ErrEntryNotFound"} )
    => ( /\ \A p \in Paths :
               /\ At(worktree, p) = ExpectedFile(p)
               /\ At(index, p) = ExpectedEntry(p)
         /\ conflict = ExpectedConflict
         /\ ( result = "ErrMergeConflict" ) <=> ExpectedConflict
         /\ \A c \in (DOMAIN commits) \ (DOMAIN pre.commits) :
               /\ commits[c].parents = << ours, target >>
               /\ \A p \in Paths : At(commits[c].tree, p) = ExpectedEntry(p) )

\* The parents of the shallow boundary commit of the repository.
BoundaryParents == IF shallow = << >> THEN {} ELSE Parents(shallow[1])

\* The commits reachable from the commits of S by parent links along which no
\* commit of `cut` is met.
RECURSIVE ClosureAvoiding(_, _)
ClosureAvoiding(S, cut) ==
    LET more == (S \cup UNION { Parents(c) : c \in S }) \ cut
    IN  IF more = S THEN S ELSE ClosureAvoiding(more, cut)

\* Ours is an ancestor of the target (or the target itself), and every chain of
\* parent links from the target to ours meets a parent of the shallow boundary.
CutOff ==
    /\ ours \in ParentClosure({target})
    /\ ours \notin ClosureAvoiding({target} \ BoundaryParents, BoundaryParents)

\* The call has read both commits and the shallow list and run isFastForward.
Checked == pc \in {"dispatch", "resolve", "done"} /\ ours # ZeroHash

\* C26: with a shallow boundary, the walk of isFastForward from the target
\* visits no parent of the boundary commit; when ours is reachable from the
\* target only through such a parent the result is false, and then
\* FastForwardOnly ends with FastForwardNotPossible and nothing changed, and
\* FastForwardMerge and OrtMerge go on to the three-way merge.
C26_ShallowBoundary ==
    ( Checked /\ shallow # << >> )
    => ( /\ Walk(target, ParentsToIgnore(shallow)) \cap BoundaryParents = {}
         /\ CutOff
              => ( /\ ~ff
                   /\ ( pc = "done" /\ strategy = FastForwardOnly )
                         => ( result = "ErrFastForwardMergeNotPossible" /\ NoMutation )
                   /\ ( pc = "done" /\ strategy \in {FastForwardMerge, OrtMerge} )
                         => ThreeWay ) )

\* FastForwardOnly has refused a target that descends from ours, because ours
\* is a parent of the shallow boundary.
C26_Witness ==
    /\ pc = "done"
    /\ Checked
    /\ shallow # << >>
    /\ CutOff
    /\ ours # target
    /\ strategy = FastForwardOnly
    /\ result = "ErrFastForwardMergeNotPossible"

\* The terminal outcomes of a Merge call.
FastForwarded ==
    /\ result = "ok"
    /\ ~ThreeWay
    /\ headRef = target
    /\ Snapshot = [pre EXCEPT !.headRef = target]

FailedWithoutMutation ==
    /\ result \in { "ErrUnsupportedMergeStrategy", "ErrFastForwardMergeNotPossible",
                     "ErrUnrelatedHistories", "unable to merge with different history" }
    /\ NoMutation

Conflicted ==
    /\ result = "ErrMergeConflict"
    /\ mergeHead = target
    /\ commits = pre.commits
    /\ headRef = pre.headRef

CleanNoOp ==
    /\ result = "ok"
    /\ ThreeWay
    /\ commits = pre.commits
    /\ headRef = pre.headRef
    /\ mergeHead = pre.mergeHead

Committed ==
    /\ result = "ok"
    /\ ThreeWay
    /\ Cardinality((DOMAIN commits) \ (DOMAIN pre.commits)) = 1
    /\ headRef \notin DOMAIN pre.commits
    /\ mergeHead = pre.mergeHead

TerminalOutcomes ==
    { o \in {"FastForwarded", "FailedWithoutMutation", "Conflicted", "CleanNoOp", "Committed"} :
        CASE o = "FastForwarded" -> FastForwarded
          [] o = "FailedWithoutMutation" -> FailedWithoutMutation
          [] o = "Conflicted" -> Conflicted
          [] o = "CleanNoOp" -> CleanNoOp
          [] o = "Committed" -> Committed }

\* C27: a Merge call that has returned is in exactly one of the terminal
\* outcomes FastForwarded, failed without mutation, Conflicted, clean no-op and
\* Committed.
C27_StateMachine == pc = "done" => Cardinality(TerminalOutcomes) = 1

\* C28: when Merge returns, no blob reader and no file it opened while
\* resolving a path is still open, whether the call ended normally or on an
\* error.
C28_ReaderRelease == pc = "done" => handles = {}


\* The raw string contains the separator and the text before its first
\* instance is one of the three driver names.
Accepted(s) ==
    \E i \in 1..(Len(s) - 2) :
        /\ SubSeq(s, i, i + 2) = SchemeSeparator
        /\ \A j \in 1..(i - 1) : SubSeq(s, j, j + 2) # SchemeSeparator
        /\ SubSeq(s, 1, i - 1) \in { HTTP, HTTPS, File }

\* C29: Extract accepts a raw string exactly when it contains "://" and the
\* text before the first "://" is "http", "https" or "file"; on success the
\* driver has Raw = input and Source + "://" + Path = input; on failure it
\* returns an error and a nil driver; and when Extract fails, Resolve returns
\* that same error and has opened nothing.
C29_Extract ==
    /\ sourcePc = "extracted" =>
          /\ (sourceErr = "none") <=> Accepted(raw)
          /\ sourceErr = "none" =>
                \E d \in driver :
                    /\ driver = { d }
                    /\ d.Raw = raw
                    /\ d.Source \o SchemeSeparator \o d.Path = raw
          /\ sourceErr # "none" => driver = {}
    /\ (sourcePc = "done" /\ ~Accepted(raw)) =>
          /\ sourceErr = Extract(raw).err
          /\ sourceErr # "none"
          /\ driver = {}
          /\ reader = << >>

\* Extract has accepted a string whose path holds a second "://".
C29_Witness ==
    /\ sourcePc = "extracted"
    /\ sourceErr = "none"
    /\ \E d \in driver : IndexFrom(d.Path, SchemeSeparator, 1) # 0


\* The call that has returned took the fast-forward path.
TookFastForward ==
    /\ pc = "done"
    /\ ~ThreeWay
    /\ TakesFastForward(impl, strategy, ff)
    /\ result \in { "ok", "panic" }

\* C30: a fast-forward changes only the head reference: when Merge returns
\* from the fast-forward path the working tree and the index are as they were
\* before the call (not the target commit's tree), no conflict reference has
\* been written and no object has been created.
C30_FastForwardFrame ==
    TookFastForward =>
        /\ worktree = pre.worktree
        /\ index = pre.index
        /\ mergeHead = pre.mergeHead
        /\ commits = pre.commits
        /\ headRef \in { pre.headRef, target }

\* A fast-forward has moved the head to a commit whose tree differs from the
\* working tree and the index it left behind.
C30_Witness ==
    /\ TookFastForward
    /\ result = "ok"
    /\ headRef = target
    /\ headRef # pre.headRef
    /\ worktree # commits[target].tree
    /\ index # commits[target].tree


\* The call that has returned was asked to merge the head commit into itself
\* under a supported strategy.
SelfMerge ==
    /\ pc = "done"
    /\ target = pre.headRef
    /\ strategy \in { FastForwardMerge, FastForwardOnly, OrtMerge }

\* C31: merging the head commit into itself is a successful no-op under
\* every supported strategy: isFastForward(A, A) is true, Merge returns no
\* error, and the head reference, the commits, the conflict reference, the
\* index and the working tree are as before the call (so that repeating the
\* call gives the same state again).
C31_SelfMerge ==
    SelfMerge =>
        /\ isFastForward(target, target, shallow)
        /\ result = "ok"
        /\ Snapshot = pre


\* C32: isFastForward is sound, with or without a shallow boundary: it
\* answers true only when old is new itself or is reachable from new by
\* parent links, so a fast-forward never moves the head reference to a target
\* from which the previous head commit is not reachable.
C32_FastForwardSound ==
    /\ ( Checked /\ ff ) => ours \in ParentClosure({target})
    /\ ( TookFastForward /\ result = "ok" )
          => ( headRef = target /\ pre.headRef \in ParentClosure({headRef}) )

\* isFastForward has answered true and the fast-forward has moved the head to
\* a strict descendant of the previous head.
C32_Witness ==
    /\ TookFastForward
    /\ ff
    /\ result = "ok"
    /\ headRef # pre.headRef
    /\ pre.headRef \in ParentClosure({headRef})


\* The place of an operation in one iteration of the plugin loop.
OpRank(op) ==
    CASE op = "remote" -> 1
      [] op = "fetch" -> 2
      [] op = "reference" -> 3
      [] op = "merge" -> 4

\* An operation of the plugin loop failed.
Failed(e) == e.outcome \notin { "ok", "NoErrAlreadyUpToDate" }

\* The operations were performed plugin after plugin, each plugin's in the
\* order of the loop body, and each merge started from the head the
\* operation before it had left.
OneAfterAnother ==
    \A i \in 1..Len(log) : \A j \in 1..Len(log) :
        /\ i < j =>
              \/ log[i].plugin < log[j].plugin
              \/ log[i].plugin = log[j].plugin /\ OpRank(log[i].op) < OpRank(log[j].op)
        /\ j = i + 1 =>
              /\ log[j].op = "merge" => log[j].from = log[i].to
              /\ log[j].op # "merge" => log[j].to = log[i].to

\* A failed operation is the last one performed, and RunE has returned its error.
FirstFailureReturns ==
    \A i \in 1..Len(log) :
        Failed(log[i]) =>
            /\ i = Len(log)
            /\ runPc = "returned"
            /\ runErr = log[i].outcome

\* RunE has returned: nothing was rolled back, the head every earlier merge
\* left is the head or an ancestor of it.
EarlierMergesStay ==
    runPc = "returned" =>
        /\ runErr = "none" => Len(log) = 4 * Len(plugins)
        /\ \A i \in 1..Len(log) :
              ( log[i].op = "merge" /\ ~Failed(log[i]) )
                 => log[i].to \in ParentClosure({headRef})

\* C33: RunE fetches and merges the selected plugins strictly one after
\* another, each merge starting from the head the previous one left; the
\* first plugin whose remote creation, fetch, reference lookup or merge fails
\* (a merge conflict included) makes RunE return that error at once, no later
\* plugin is fetched or merged, and the results of the earlier merges stay.
C33_PluginLoop ==
    /\ OneAfterAnother
    /\ FirstFailureReturns
    /\ EarlierMergesStay


\* The positions in msgs of the Enter keys received while the list had a
\* current item.
EntersOnItem == { i \in 1..Len(msgs) : msgs[i].msg = "KeyEnter" /\ msgs[i].current # {} }

LastOf(S) == CHOOSE i \in S : \A j \in S : j <= i

\* Selected() is non-nil only after an Enter on a current item, and is then the
\* item current at the latest such Enter.
SelectionFromEnter ==
    /\ selected # {} => EntersOnItem # {}
    /\ EntersOnItem # {} => selected = msgs[LastOf(EntersOnItem)].current

\* RunE has gone past the base selection without a selected base.
PastSelectionWithoutBase == runPc \notin { "idle", "selectBase" } /\ selected = {}

\* C34 as stated: Selected() is non-nil only if an Enter key was received
\* while the list had a current item, and then equals the item current at
\* the most recent such Enter; Ctrl-C, Ctrl-D and Esc never set a selection;
\* and when Selected() is nil the init command returns success without
\* creating a remote, fetching or merging.
C34_BaseSelector_Original ==
    /\ SelectionFromEnter
    /\ PastSelectionWithoutBase
          => ( runPc = "returned" /\ runErr = "none" /\ log = << >> /\ calls = 0 )

\* C34, amended: as stated, except that the init command returns success on
\* a nil Selected() when program.Run itself returned no error; when
\* program.Run failed, RunE returns that error, and in both cases no remote
\* is created and nothing is fetched or merged.
C34_BaseSelector ==
    /\ SelectionFromEnter
    /\ PastSelectionWithoutBase
          => ( /\ runPc = "returned"
               /\ runErr \in { "none", "ErrProgram" }
               /\ log = << >>
               /\ calls = 0 )
    /\ ( runPc = "returned" /\ runErr = "none" ) => selected = {}

\* The list had items, Esc quit the selector without a selection, and RunE
\* returned success with no remote created.
C34_Witness ==
    /\ PastSelectionWithoutBase
    /\ items # << >>
    /\ runPc = "returned"
    /\ runErr = "none"
    /\ log = << >>
    /\ \E i \in 1..Len(msgs) : msgs[i].msg = "KeyEsc"


\* The number of Space keys received while the item at index i was current.
SpacesOn(i) ==
    Cardinality({ k \in 1..Len(msgs) :
                    msgs[k].msg = "KeySpace" /\ msgs[k].current # {} /\ msgs[k].index = i })

ToggledOn == { i \in 0..(Len(items) - 1) : SpacesOn(i) % 2 = 1 }

\* C35: after any sequence of key messages the selected map holds exactly
\* the list indices on which Space was pressed an odd number of times, each
\* mapped to the item at that index; Enter, Ctrl-C, Ctrl-D and Esc quit
\* without changing the map, so that Selected() returns every item toggled
\* on, also after a cancel.
C35_MultiSelector ==
    /\ DOMAIN selectedMap = ToggledOn
    /\ \A i \in DOMAIN selectedMap : selectedMap[i] = items[i + 1]
    /\ ( msgs # << >> /\ msgs[Len(msgs)].msg \in { "KeyEnter", "KeyCtrlC", "KeyCtrlD", "KeyEsc" } )
          => cmd = "quit"
    /\ MultiSelected(selectedMap) # {}
    /\ \A q \in MultiSelected(selectedMap) :
          /\ Len(q) = Cardinality(ToggledOn)
          /\ \A i \in ToggledOn : \E a \in 1..Len(q) : q[a] = items[i + 1]

\* An item was toggled on with Space and the selector was then cancelled with
\* Esc: the item is still selected.
C35_Witness ==
    /\ cmd = "quit"
    /\ msgs # << >>
    /\ msgs[Len(msgs)].msg = "KeyEsc"
    /\ \E i \in DOMAIN selectedMap : SpacesOn(i) > 0


\* The positions in msgs of the keys that finish the prompt.
Finishers == { k \in 1..Len(msgs) : msgs[k].msg \in { "KeyEnter", "KeyEsc", "KeyCtrlC" } }

FirstOf(S) == CHOOSE i \in S : \A j \in S : i <= j

\* v is "y" or "yes" in any letter case, with blanks before and after only.
SaysYes(v) ==
    \E a \in 1..Len(v) : \E b \in a..Len(v) :
        /\ \A k \in 1..Len(v) : (k < a \/ k > b) => v[k] = " "
        /\ v[a] \in { "y", "Y" }
        /\ \/ b = a
           \/ b = a + 2 /\ v[a + 1] = "e" /\ v[a + 2] = "s"

\* C36: GetResult() is true if and only if the prompt finished by an Enter
\* key while the input, trimmed and lower-cased, was exactly "y" or "yes";
\* empty input, any other text, Esc and Ctrl-C finish with false; once the
\* prompt is finished no later message changes the result, and every later
\* Update returns the quit command.
C36_YesNo ==
    /\ done <=> Finishers # {}
    /\ ynResult <=> ( /\ Finishers # {}
                      /\ msgs[FirstOf(Finishers)].msg = "KeyEnter"
                      /\ SaysYes(msgs[FirstOf(Finishers)].value) )
    /\ done => cmd = "quit"

\* The prompt finished with true on an input with a blank and a capital, and
\* a later Esc has not changed the result.
C36_Witness ==
    /\ ynResult
    /\ done
    /\ \E k \in Finishers :
          /\ k > FirstOf(Finishers)
          /\ msgs[k].msg = "KeyEsc"
    /\ msgs[FirstOf(Finishers)].value \notin { << "y" >>, << "y", "e", "s" >> }

====
